---- MODULE Spec2Model ----
(***************************************************************************)
(* Model of the read-through cache, the list-version registry, the         *)
(* invalidation fan-out and the keyset pagination of the library API       *)
(* (src/cache.py, src/helpers.py, src/routers/*.py).                       *)
(*                                                                         *)
(* Specifications:                                                         *)
(*   Spec      the API served one request at a time, every handler whole   *)
(*   SpecConc  list readers interleaved with a mutation handler's steps    *)
(*   SpecBook  GET /books/{id} interleaved with PATCH /books/{id} steps    *)
(*   SpecKey   normalize_params / make_list_key_with_payload on dicts      *)
(*   SpecVer   the version registry under concurrent callers               *)
(*   SpecPage  a client walking GET /books pages by next_cursor            *)
(*   SpecWalk  SpecPage with every request of the walk sent and served     *)
(*   SpecCursor  decode_cursor on encoded and on tampered tokens           *)
(*   SpecReq   GET /books and GET /authors over every parameter combination *)
(*   SpecFail  handlers step by step while the key-value store goes down   *)
(*   SpecCache the cache.py functions called directly, and key expiry      *)
(***************************************************************************)
EXTENDS Integers, Sequences, FiniteSets, TLC

VARIABLES
    kParams,    \* SpecKey: the params dict handed to the key builder
    kPrefix,    \* SpecKey: the list-type prefix
    kVersion,   \* SpecKey: the version handed to the key builder
    kPrev,      \* SpecKey: the build before the last one
    kLast,      \* SpecKey: the last build
    redis,      \* the key-value store: present key -> stored value
    pc,         \* SpecVer: position of each caller of bump_cache_version
    cname,      \* SpecVer: the counter name each caller bumps
    ret,        \* SpecVer: the value bump_cache_version returned to each caller
    bumpLog,    \* history: per counter, the bumps in the order the store ran them
    getPrev,    \* SpecVer: the get_cache_version call before the last one
    getLast,    \* SpecVer: the last get_cache_version call
    books,      \* relational store: present book id -> row
    authors,    \* relational store: present author id -> row
    links,      \* relational store: author_book_relation, <<author id, book id>>
    reviews,    \* relational store: present review id -> row
    nextBookId,    \* relational store: the books.id sequence
    nextAuthorId,  \* relational store: the authors.id sequence
    nextReviewId,  \* relational store: the reviews.id sequence
    ops,        \* Spec: the number of requests served so far
    resp,       \* Spec: what the last request did and answered
    fillAge,    \* history: filled books list key -> "fresh", or "old" once a
                \* book mutation committed after the fill
    rd,         \* SpecConc: each reader's position and locals
    wr,         \* SpecConc: the writer's position and locals
    pReq,       \* SpecPage: the GET /books request the client repeats
    pCursor,    \* SpecPage: the next_cursor of the last page
    pSeen,      \* SpecPage: the ids of the items received so far, in order
    pState,     \* SpecPage: "start", "walking" or "done"
    cDoc,       \* SpecCursor: the JSON document the token was made from
    cToken,     \* SpecCursor: the cursor string handed to decode_cursor
    cEdits,     \* SpecCursor: the number of changes made to the token
    cResult,    \* SpecCursor: what decode_cursor did with the token
    up,         \* SpecFail: whether the key-value store can be reached
    hx,         \* SpecFail: the request in flight, its position and locals
    mLast       \* SpecCache: the last call of a cache.py function and its outcome

keyVars == <<kParams, kPrefix, kVersion, kPrev, kLast>>
verVars == <<pc, cname, ret, getPrev, getLast>>
dbVars == <<books, authors, links, reviews, nextBookId, nextAuthorId, nextReviewId>>
pageVars == <<pReq, pCursor, pSeen, pState>>
appVars == <<ops, resp, fillAge>>
concVars == <<rd, wr>>
curVars == <<cDoc, cToken, cEdits, cResult>>
failVars == <<up, hx>>
nonKeyVars == <<redis, bumpLog, verVars, dbVars, pageVars, appVars, concVars, curVars,
                failVars, mLast>>
nonVerVars == <<keyVars, dbVars, pageVars, appVars, concVars, curVars,
                failVars, mLast>>
nonPageVars == <<keyVars, bumpLog, verVars, appVars, concVars, curVars,
                failVars, mLast>>
nonAppVars == <<keyVars, bumpLog, verVars, pageVars, concVars, curVars,
                failVars, mLast>>
nonConcVars == <<keyVars, bumpLog, verVars, pageVars, appVars, curVars,
                failVars, mLast>>
nonCurVars == <<keyVars, redis, bumpLog, verVars, dbVars, pageVars, appVars, concVars,
                failVars, mLast>>
vars == <<kParams, kPrefix, kVersion, kPrev, kLast, redis, pc, cname, ret, bumpLog,
          getPrev, getLast, books, authors, links, reviews, nextBookId, nextAuthorId,
          nextReviewId, ops, resp, fillAge, rd, wr, pReq, pCursor, pSeen, pState,
          cDoc, cToken, cEdits, cResult, up, hx, mLast>>

(***************************************************************************)
(* Bounds                                                                  *)
(***************************************************************************)
\* Size of the modelled digest range: distinct payloads may share a digest.
HashSpace == 4
\* Largest version value handed to the key builder in SpecKey.
MaxKeyVersion == 2
\* Cap on the number of bumps of one counter in a behaviour of SpecVer.
MaxBumps == 3
\* Number of books in the dataset of SpecPage, and the largest page size.
MaxPageBooks == 3
MaxLimit == 2
\* Spec: the number of requests in a behaviour, and the largest book, author
\* and review id the sequences hand out.
MaxOps == 3
MaxBooks == 2
MaxAuthors == 2
MaxReviews == 2

(***************************************************************************)
(* Python values.  A dict is a sequence of <<key, value>> pairs with       *)
(* distinct keys, in insertion order (CPython dicts keep it).              *)
(***************************************************************************)
PyNone == [t |-> "none"]
PyStr(s) == [t |-> "str", v |-> s]
PyInt(n) == [t |-> "int", v |-> n]
PyFloat(n) == [t |-> "float", v |-> n]  \* the float n.0
PyList(xs) == [t |-> "list", v |-> xs]
PyDict(ps) == [t |-> "dict", v |-> ps]
\* a deserialized JSON document, which is never None
Some(doc) == [t |-> "json", v |-> doc]

NoBuild == [none |-> TRUE]
EmptyStore == << >>

(***************************************************************************)
(* The parts of the state a specification does not use stay as below.      *)
(***************************************************************************)
VersionNames == {"books:list", "authors:list"}
Callers == {"w1", "w2"}
NoGet == [none |-> TRUE]

VerIdle ==
    /\ pc = [c \in Callers |-> "idle"]
    /\ cname = [c \in Callers |-> "books:list"]
    /\ ret = [c \in Callers |-> 0]
    /\ bumpLog = [n \in VersionNames |-> <<>>]
    /\ getPrev = NoGet
    /\ getLast = NoGet

DB == [books |-> books, authors |-> authors, links |-> links, reviews |-> reviews]

EmptyDb ==
    /\ books = << >>
    /\ authors = << >>
    /\ links = {}
    /\ reviews = << >>
    /\ nextBookId = 1
    /\ nextAuthorId = 1
    /\ nextReviewId = 1

NoResp == [none |-> TRUE]

AppIdle ==
    /\ ops = 0
    /\ resp = NoResp
    /\ fillAge = << >>

ConcIdle ==
    /\ rd = << >>
    /\ wr = << >>

NoReq == [none |-> TRUE]

PageIdle ==
    /\ pReq = NoReq
    /\ pCursor = PyNone
    /\ pSeen = <<>>
    /\ pState = "idle"

NoResult == [none |-> TRUE]

CurIdle ==
    /\ cDoc = PyNone
    /\ cToken = PyNone
    /\ cEdits = 0
    /\ cResult = NoResult

NoCall == [none |-> TRUE]

FailIdle ==
    /\ up = TRUE
    /\ hx = NoReq
    /\ mLast = NoCall

KeyIdle ==
    /\ kParams = <<>>
    /\ kPrefix = "books:list"
    /\ kVersion = 1
    /\ kPrev = NoBuild
    /\ kLast = NoBuild


SeqRange(s) == {s[i] : i \in 1..Len(s)}
DictKeys(d) == {d[i][1] : i \in 1..Len(d)}
DictItems(d) == {<<d[i][1], d[i][2]>> : i \in 1..Len(d)}
DictGet(d, k) == IF k \in DictKeys(d) THEN (CHOOSE p \in DictItems(d) : p[1] = k)[2] ELSE PyNone

\* Lexicographic (code point) order of the key strings the handlers use;
\* json.dumps(sort_keys=True) sorts the dict items by key.
KeyOrder ==
    <<"after", "author_id", "before", "cursor", "email", "isbn", "limit", "name",
      "offset", "q", "sort", "sort_direction", "sort_field", "title">>
KeyRank(k) == CHOOSE i \in 1..Len(KeyOrder) : KeyOrder[i] = k

RECURSIVE SortedItems(_)
SortedItems(items) ==
    IF items = {} THEN <<>>
    ELSE LET first == CHOOSE p \in items : \A o \in items : KeyRank(p[1]) <= KeyRank(o[1])
         IN <<first>> \o SortedItems(items \ {first})

\* json.dumps(..., sort_keys=True, separators=(",", ":")) of the item sequence
\* in the order given.
RECURSIVE json_dumps(_, _)
RECURSIVE JoinValues(_, _)
RECURSIVE JoinItems(_, _)
JoinValues(xs, sortKeys) ==
    IF Len(xs) = 0 THEN ""
    ELSE json_dumps(Head(xs), sortKeys)
         \o (IF Len(xs) > 1 THEN "," \o JoinValues(Tail(xs), sortKeys) ELSE "")
JoinItems(ps, sortKeys) ==
    IF Len(ps) = 0 THEN ""
    ELSE ToString(Head(ps)[1]) \o ":" \o json_dumps(Head(ps)[2], sortKeys)
         \o (IF Len(ps) > 1 THEN "," \o JoinItems(Tail(ps), sortKeys) ELSE "")
json_dumps(x, sortKeys) ==
    CASE x.t = "none" -> "null"
      [] x.t = "str"  -> ToString(x.v)
      [] x.t = "int"  -> ToString(x.v)
      [] x.t = "float" -> ToString(x.v) \o ".0"
      [] x.t = "list" -> "[" \o JoinValues(x.v, sortKeys) \o "]"
      [] x.t = "dict" ->
            "{" \o JoinItems(IF sortKeys THEN SortedItems(DictItems(x.v)) ELSE x.v, sortKeys) \o "}"

\* clean = {k: v for k, v in params.items() if v is not None}
CleanParams(params) == SelectSeq(params, LAMBDA p : p[2] # PyNone)

normalize_params_unsorted(params) ==
    [clean |-> CleanParams(params),
     payload |-> json_dumps(PyDict(CleanParams(params)), FALSE)]
normalize_params(params) ==
    [clean |-> CleanParams(params),
     payload |-> json_dumps(PyDict(CleanParams(params)), TRUE)]

\* hashlib.sha1(payload.encode()).hexdigest()[:16]: a deterministic digest of
\* the payload bytes with a fixed 16-character rendering and a finite range.
\* The model's digest is the payload length modulo HashSpace, so payloads of
\* equal length collide and others (mostly) do not.
sha1_hex16(payload) == "000000000000000" \o ToString(Len(payload) % HashSpace)

make_list_key_v1(prefix, params, version) ==
    [key |-> prefix \o ":v" \o ToString(1) \o ":" \o sha1_hex16(normalize_params(params).payload),
     payload |-> normalize_params(params).payload]
make_list_key_with_payload(prefix, params, version) ==
    [key |-> prefix \o ":v" \o ToString(version) \o ":"
             \o sha1_hex16(normalize_params(params).payload),
     payload |-> normalize_params(params).payload]

(***************************************************************************)
(* The relational store.  books, authors: present id -> row; links: the    *)
(* author_book_relation rows <<author id, book id>>.  The text-search      *)
(* signals PostgreSQL computes for the free-text query (ts_rank against    *)
(* search_tsv, pg_trgm similarity of the title and of an author's name)    *)
(* are columns of the rows: fts, tsim, nsim, each 0 or 1.                  *)
(***************************************************************************)
Truthy(x) ==
    /\ x # PyNone
    /\ (x.t = "str" => x.v # "")
    /\ (x.t = "int" => x.v # 0)
    /\ (x.t = "list" => Len(x.v) > 0)

TitleOrder == <<"t1", "t2">>
TitleRank(t) == CHOOSE i \in 1..Len(TitleOrder) : TitleOrder[i] = t

by_similarity == "similarity"
by_title == "title"
by_year == "year"
SortAsc == "asc"
SortDesc == "desc"

SetMax(S) == CHOOSE x \in S : \A y \in S : y <= x

BookAuthors(db, b) == {a \in DOMAIN db.authors : <<a, b>> \in db.links}
AuthorBooks(db, a) == {b \in DOMAIN db.books : <<a, b>> \in db.links}

\* total = 0.6 * fts_score + 0.25 * title_sim + 0.15 * author_sim, in hundredths
TotalScore(db, b) ==
    LET author_sim == SetMax({0} \cup {db.authors[a].nsim : a \in BookAuthors(db, b)})
    IN 60 * db.books[b].fts + 25 * db.books[b].tsim + 15 * author_sim

\* search_tsv @@ tsq  OR  title % q  OR  author.name % q
RecallGate(db, b) ==
    \/ db.books[b].fts > 0
    \/ db.books[b].tsim > 0
    \/ \E a \in BookAuthors(db, b) : db.authors[a].nsim > 0

\* the WHERE clauses of lines 82-107
MatchingBooks(db, req) ==
    {b \in DOMAIN db.books :
        /\ (Truthy(req.title) => db.books[b].title = req.title.v)
        /\ (Truthy(req.author_id) => req.author_id.v \in BookAuthors(db, b))
        /\ (Truthy(req.before) => db.books[b].year <= req.before.v)
        /\ (Truthy(req.after) => db.books[b].year >= req.after.v)
        /\ (Truthy(req.q) => RecallGate(db, b))}

BookRow(db, req, b) ==
    [id |-> b,
     title |-> db.books[b].title,
     year |-> db.books[b].year,
     authors |-> {[id |-> a, name |-> db.authors[a].name] : a \in BookAuthors(db, b)},
     total |-> IF Truthy(req.q) THEN TotalScore(db, b) ELSE 0]

\* if q and not sort: sort = [by_similarity desc]
EffectiveSort(req) ==
    IF Truthy(req.q) /\ Len(req.sort) = 0
    THEN <<[sort_field |-> by_similarity, sort_direction |-> SortDesc]>>
    ELSE req.sort

SortColumn(row, s) ==
    CASE s.sort_field = by_similarity -> row.total
      [] s.sort_field = by_title -> TitleRank(row.title)
      [] s.sort_field = by_year -> row.year

\* order_exprs.append(Book.id.asc()): the last ORDER BY column
TieBreak_id_desc(x, y) == x.id > y.id
TieBreak(x, y) == x.id < y.id

\* ORDER BY order_exprs..., Book.id ASC
RECURSIVE RowBefore(_, _, _)
RowBefore(x, y, sort) ==
    IF Len(sort) = 0 THEN TieBreak(x, y)
    ELSE LET cx == SortColumn(x, Head(sort))
             cy == SortColumn(y, Head(sort))
         IN IF cx = cy THEN RowBefore(x, y, Tail(sort))
            ELSE IF Head(sort).sort_direction = SortAsc THEN cx < cy ELSE cx > cy

RECURSIVE OrderRows(_, _)
OrderRows(rows, sort) ==
    IF rows = {} THEN <<>>
    ELSE LET first == CHOOSE x \in rows : \A y \in rows \ {x} : RowBefore(x, y, sort)
         IN <<first>> \o OrderRows(rows \ {first}, sort)

IsNumber(x) == x.t \in {"int", "float"}

\* HAVING total < last_score OR (total = last_score AND Book.id > last_id);
\* a comparison with NULL is not true
\* (_inclusive: Book.id >= last_id, the cursor's own row is kept)
Keyset_inclusive(row, data, sort) ==
    \/ IsNumber(DictGet(data, "score")) /\ row.total < DictGet(data, "score").v
    \/ /\ IsNumber(DictGet(data, "score")) /\ row.total = DictGet(data, "score").v
       /\ IsNumber(DictGet(data, "id")) /\ row.id >= DictGet(data, "id").v
Keyset(row, data, sort) ==
    \/ IsNumber(DictGet(data, "score")) /\ row.total < DictGet(data, "score").v
    \/ /\ IsNumber(DictGet(data, "score")) /\ row.total = DictGet(data, "score").v
       /\ IsNumber(DictGet(data, "id")) /\ row.id > DictGet(data, "id").v

(***************************************************************************)
(* The cursor codec (src/helpers.py).  TLC cannot look inside a string, so *)
(* a JSON text is held as the sequence of its lexemes and a cursor token   *)
(* as the sequence of its characters; the str a request carries keeps its  *)
(* characters next to its text.                                            *)
(***************************************************************************)
\* JSON lexemes: punctuation, the literal of a scalar, a word that is no JSON
\* literal, and bytes that are not UTF-8
Punct(s) == [k |-> "p", s |-> s, v |-> PyNone]
Lit(v) == [k |-> "lit", s |-> "", v |-> v]
Word == [k |-> "word", s |-> "abc", v |-> PyNone]
BadBytes == [k |-> "bad", s |-> "\\xff", v |-> PyNone]

LexText(lx) == IF lx.k = "lit" THEN json_dumps(lx.v, FALSE) ELSE lx.s

\* json.dumps(x, separators=(",", ":")) as lexemes
RECURSIVE json_lexemes(_)
RECURSIVE LexValues(_)
RECURSIVE LexItems(_)
LexValues(xs) ==
    IF Len(xs) = 0 THEN <<>>
    ELSE json_lexemes(Head(xs))
         \o (IF Len(xs) > 1 THEN <<Punct(",")>> \o LexValues(Tail(xs)) ELSE <<>>)
LexItems(ps) ==
    IF Len(ps) = 0 THEN <<>>
    ELSE <<Lit(PyStr(Head(ps)[1])), Punct(":")>> \o json_lexemes(Head(ps)[2])
         \o (IF Len(ps) > 1 THEN <<Punct(",")>> \o LexItems(Tail(ps)) ELSE <<>>)
json_lexemes(x) ==
    CASE x.t = "list" -> <<Punct("[")>> \o LexValues(x.v) \o <<Punct("]")>>
      [] x.t = "dict" -> <<Punct("{")>> \o LexItems(x.v) \o <<Punct("}")>>
      [] OTHER -> <<Lit(x)>>

\* the characters of a token: base64 characters that carry one lexeme, an
\* ASCII character outside the base64 alphabet, a non-ASCII character
B64Char(lx) == [c |-> "b64", lx |-> lx]
JunkChar == [c |-> "junk", lx |-> Word]
NonAsciiChar == [c |-> "nonascii", lx |-> Word]

CharText(ch) ==
    CASE ch.c = "b64" -> "<" \o LexText(ch.lx) \o ">"
      [] ch.c = "junk" -> "!"
      [] ch.c = "nonascii" -> "%C3%A9"

RECURSIVE JoinChars(_)
JoinChars(chars) ==
    IF Len(chars) = 0 THEN "" ELSE CharText(Head(chars)) \o JoinChars(Tail(chars))

\* a token: its characters, and whether the base64 characters among them
\* make whole, correctly padded groups
Token(chars, padded) == [chars |-> chars, padded |-> padded]
TokenText(tok) == JoinChars(tok.chars) \o (IF tok.padded THEN "" ELSE "x")

\* the str whose characters are the token's
PyToken(tok) == [t |-> "str", v |-> TokenText(tok), tok |-> tok]

\* base64.urlsafe_b64encode(text.encode()).decode("ascii")
urlsafe_b64encode_unpadded(lexemes) ==
    Token([i \in 1..Len(lexemes) |-> B64Char(lexemes[i])], Len(lexemes) = 0)
urlsafe_b64encode(lexemes) ==
    Token([i \in 1..Len(lexemes) |-> B64Char(lexemes[i])], TRUE)

encode_cursor(payload) == PyToken(urlsafe_b64encode(json_lexemes(PyDict(payload))))

\* the {id, score} payloads get_books_router encodes (line 192)
CursorPayload(id, score) == <<<<"id", PyInt(id)>>, <<"score", PyFloat(score)>>>>

HTTP400 == 400
HTTP200 == 200
\* the status of a request whose handler raised something other than HTTPException
HTTP500 == 500

\* the value of the one-element set S: names an intermediate result of a
\* handler once it is computed
Bind(S) == CHOOSE x \in S : TRUE

\* d[k] = v: an existing key keeps its place
DictPut(d, k, v) ==
    IF k \in DictKeys(d)
    THEN [i \in 1..Len(d) |-> IF d[i][1] = k THEN <<k, v>> ELSE d[i]]
    ELSE Append(d, <<k, v>>)

\* json.loads on the lexemes: the value and the lexemes left, or a failure
\* (json.JSONDecodeError)
ParseFail == [ok |-> FALSE, v |-> PyNone, rest |-> <<>>]
Parsed(v, rest) == [ok |-> TRUE, v |-> v, rest |-> rest]

RECURSIVE ParseValue(_)
RECURSIVE ParseElems(_, _)
RECURSIVE ParseMembers(_, _)
ParseValue(ls) ==
    IF Len(ls) = 0 THEN ParseFail
    ELSE IF Head(ls).k = "lit" THEN Parsed(Head(ls).v, Tail(ls))
    ELSE IF Head(ls) = Punct("[")
    THEN IF Len(ls) >= 2 /\ ls[2] = Punct("]")
         THEN Parsed(PyList(<<>>), Tail(Tail(ls)))
         ELSE ParseElems(Tail(ls), <<>>)
    ELSE IF Head(ls) = Punct("{")
    THEN IF Len(ls) >= 2 /\ ls[2] = Punct("}")
         THEN Parsed(PyDict(<<>>), Tail(Tail(ls)))
         ELSE ParseMembers(Tail(ls), <<>>)
    ELSE ParseFail
ParseElems(ls, acc) ==
    Bind({IF ~e.ok \/ Len(e.rest) = 0 THEN ParseFail
          ELSE IF Head(e.rest) = Punct(",") THEN ParseElems(Tail(e.rest), Append(acc, e.v))
          ELSE IF Head(e.rest) = Punct("]") THEN Parsed(PyList(Append(acc, e.v)), Tail(e.rest))
          ELSE ParseFail :
             e \in {ParseValue(ls)}})
ParseMembers(ls, acc) ==
    IF Len(ls) < 3 \/ ls[1].k # "lit" \/ ls[1].v.t # "str" \/ ls[2] # Punct(":")
    THEN ParseFail
    ELSE Bind({IF ~e.ok \/ Len(e.rest) = 0 THEN ParseFail
               ELSE IF Head(e.rest) = Punct(",")
               THEN ParseMembers(Tail(e.rest), DictPut(acc, ls[1].v.v, e.v))
               ELSE IF Head(e.rest) = Punct("}")
               THEN Parsed(PyDict(DictPut(acc, ls[1].v.v, e.v)), Tail(e.rest))
               ELSE ParseFail :
                  e \in {ParseValue(Tail(Tail(ls)))}})

\* json.loads(text): one value and nothing after it
json_loads(ls) ==
    Bind({IF e.ok /\ Len(e.rest) = 0 THEN e ELSE ParseFail : e \in {ParseValue(ls)}})

\* what decode_cursor does with the token: the dict it returns, the
\* HTTPException it raises, or another exception it lets through
Returned(data) == [ok |-> TRUE, status |-> HTTP200, detail |-> "", data |-> data]
Raised(status, detail) == [ok |-> FALSE, status |-> status, detail |-> detail, data |-> <<>>]

\* base64.urlsafe_b64decode discards the characters outside the alphabet and
\* raises binascii.Error on incorrect padding
B64Lexemes(tok) ==
    [i \in 1..Len(SelectSeq(tok.chars, LAMBDA ch : ch.c = "b64")) |->
        SelectSeq(tok.chars, LAMBDA ch : ch.c = "b64")[i].lx]

DecodedJson(ls) ==
    Bind({IF ~e.ok THEN Raised(HTTP400, "Invalid cursor")
          ELSE IF e.v.t # "dict" THEN Raised(HTTP400, "Malformed cursor")
          ELSE IF "id" \notin DictKeys(e.v.v) \/ "score" \notin DictKeys(e.v.v)
          THEN Raised(HTTP400, "Malformed cursor")
          ELSE Returned(e.v.v) :
             e \in {json_loads(ls)}})

decode_cursor(cursor) ==
    IF \E i \in 1..Len(cursor.tok.chars) : cursor.tok.chars[i].c = "nonascii"
    THEN Raised(HTTP500, "UnicodeEncodeError")
    ELSE IF ~cursor.tok.padded
    THEN Raised(HTTP400, "Invalid cursor")
    ELSE IF \E lx \in SeqRange(B64Lexemes(cursor.tok)) : lx.k = "bad"
    THEN Raised(HTTP400, "Invalid cursor")
    ELSE DecodedJson(B64Lexemes(cursor.tok))

Take(xs, n) == SubSeq(xs, 1, IF n < Len(xs) THEN n ELSE Len(xs))
Drop(xs, n) == IF n >= Len(xs) THEN <<>> ELSE SubSeq(xs, n + 1, Len(xs))

\* the rows the statement returns: WHERE / HAVING, ORDER BY, OFFSET and
\* LIMIT limit + 1.  data is the decoded cursor, or the empty dict for none.
FetchedRows(db, req, sort, data) ==
    LET rows == {BookRow(db, req, b) : b \in MatchingBooks(db, req)}
        kept == IF data # <<>> THEN {x \in rows : Keyset(x, data, sort)} ELSE rows
        skipped == IF req.offset # PyNone /\ req.cursor = PyNone
                   THEN Drop(OrderRows(kept, sort), req.offset.v)
                   ELSE OrderRows(kept, sort)
    IN Take(skipped, req.limit.v + 1)

\* has_next = len(rows) > limit, rows being the limit + 1 probe
HasNext_full_page(fetched, limit) == Len(fetched) >= limit
HasNext(fetched, limit) == Len(fetched) > limit

\* lines 181-198: trim to limit, emit next_cursor from the last kept row
BooksPage(req, by_sim, fetched) ==
    LET n == IF Len(fetched) > req.limit.v THEN req.limit.v ELSE Len(fetched)
        has_next == HasNext(fetched, req.limit.v)
    IN [status |-> HTTP200,
        body |-> [items |-> [i \in 1..n |->
                               [id |-> fetched[i].id, title |-> fetched[i].title,
                                year |-> fetched[i].year, authors |-> fetched[i].authors]],
                  next_cursor |->
                      IF has_next /\ by_sim
                      THEN encode_cursor(CursorPayload(fetched[n].id, fetched[n].total))
                      ELSE PyNone]]

\* a value the driver can send as the parameter of a comparison with a
\* number: a number, or None (the comparison is then NULL and keeps no row)
Bindable(x) == IsNumber(x) \/ x = PyNone

\* lines 119-125: a by_similarity key anywhere in the sort needs q
SimilarityWithoutQ_primary_only(req, sort) ==
    Len(sort) > 0 /\ sort[1].sort_field = by_similarity /\ ~Truthy(req.q)
SimilarityWithoutQ(req, sort) ==
    \E i \in 1..Len(sort) : sort[i].sort_field = by_similarity /\ ~Truthy(req.q)

\* lines 147-151: if cursor is not None and offset is not None
BothCursorAndOffset_truthy(req) == Truthy(req.cursor) /\ Truthy(req.offset)
BothCursorAndOffset(req) == req.cursor # PyNone /\ req.offset # PyNone

\* lines 79-198 of get_books_router: the ranked query, the keyset predicate,
\* the limit + 1 probe and the response body, or the HTTP 400 raised on the way
books_query(db, req) ==
    LET sort == EffectiveSort(req)
        by_sim == Len(sort) > 0 /\ sort[1].sort_field = by_similarity
    IN IF SimilarityWithoutQ(req, sort)
       THEN [status |-> HTTP400, detail |-> "by_similarity only works with q"]
       ELSE IF BothCursorAndOffset(req)
       THEN [status |-> HTTP400, detail |-> "Cannot use both cursor and offset"]
       ELSE IF Truthy(req.cursor) /\ by_sim
       THEN Bind({IF ~dec.ok
                  THEN [status |-> dec.status, detail |-> dec.detail]
                  ELSE IF ~Bindable(DictGet(dec.data, "score")) \/ ~Bindable(DictGet(dec.data, "id"))
                  THEN [status |-> HTTP500, detail |-> "DBAPIError"]
                  ELSE Bind({BooksPage(req, by_sim, f) :
                                f \in {FetchedRows(db, req, sort, dec.data)}}) :
                     dec \in {decode_cursor(req.cursor)}})
       ELSE IF Truthy(req.cursor) /\ ~by_sim
       THEN [status |-> HTTP400,
             detail |-> "cursor pagination is only supported for by_similarity sort"]
       ELSE Bind({BooksPage(req, by_sim, f) : f \in {FetchedRows(db, req, sort, <<>>)}})

(***************************************************************************)
(* The key-value store (Redis, decode_responses=True).  redis maps each    *)
(* present key to its value; every value this code writes is a string      *)
(* (SET, INCR), held here as [kind |-> "string", v |-> ..., ex |-> ...]    *)
(* with ex the expiry SET was given (None for a key INCR created).         *)
(***************************************************************************)
VERSION_KEY_PREFIX == "cache:version:"
VersionKey(name) == VERSION_KEY_PREFIX \o name

\* int(raw) of a decimal string
ParseInt(raw) == CHOOSE n \in 0..(MaxBumps + MaxOps + 2) : ToString(n) = raw

\* GET key: the stored string, or None
redis_get(store, key) == IF key \in DOMAIN store THEN PyStr(store[key].v) ELSE PyNone

StoreSet(store, key, val) ==
    [k \in (DOMAIN store) \cup {key} |-> IF k = key THEN val ELSE store[k]]

\* INCR key: an absent key counts as 0; the new value is stored as its decimal
\* string and returned as the integer reply.
redis_incr_stale_reply(store, key) ==
    LET old == IF key \in DOMAIN store THEN ParseInt(store[key].v) ELSE 0
    IN [store |-> StoreSet(store, key, [kind |-> "string", v |-> ToString(old + 1), ex |-> PyNone]),
        reply |-> old]
redis_incr(store, key) ==
    LET old == IF key \in DOMAIN store THEN ParseInt(store[key].v) ELSE 0
    IN [store |-> StoreSet(store, key, [kind |-> "string", v |-> ToString(old + 1), ex |-> PyNone]),
        reply |-> old + 1]

\* DEL key: a missing key is no error
\* (_tombstone: the key is overwritten with an empty marker instead)
redis_delete_tombstone(store, key) ==
    StoreSet(store, key, [kind |-> "string", v |-> "", ex |-> PyInt(1)])
redis_delete(store, key) == [k \in (DOMAIN store) \ {key} |-> store[k]]

get_cache_version_unset0(store, name) ==
    LET raw == redis_get(store, VersionKey(name))
    IN IF raw # PyNone THEN ParseInt(raw.v) ELSE 0
get_cache_version(store, name) ==
    LET raw == redis_get(store, VersionKey(name))
    IN IF raw # PyNone THEN ParseInt(raw.v) ELSE 1

bump_cache_version(store, name) == redis_incr(store, VersionKey(name))

(***************************************************************************)
(* Cache entries (src/cache.py).  A cached value is the JSON text of a     *)
(* dict or list of str / int / None values, which json.loads gives back    *)
(* as written; the model keeps the document, tagged with its top-level     *)
(* shape.                                                                  *)
(***************************************************************************)
DEFAULT_TTL == 300

make_book_key(book_id) == "book:" \o ToString(book_id)
make_author_key(author_id) == "author:" \o ToString(author_id)
make_author_books_key(author_id) == "author:" \o ToString(author_id) \o ":books"
make_reviews_key(book_id) == "book:" \o ToString(book_id) \o ":reviews"

\* r.set(key, json.dumps(doc), ex=ttl)
\* (_append: APPEND instead of SET, an existing value is kept and extended)
redis_set_append(store, key, doc, ttl) ==
    StoreSet(store, key,
             [kind |-> "string",
              v |-> IF key \in DOMAIN store THEN <<store[key].v, doc>> ELSE doc,
              ex |-> PyInt(ttl)])
redis_set(store, key, doc, ttl) ==
    StoreSet(store, key, [kind |-> "string", v |-> doc, ex |-> PyInt(ttl)])

cache_list(store, key, doc) == redis_set(store, key, doc, DEFAULT_TTL)

\* raw = r.get(key); json.loads(raw) if raw else None
get_list(store, key) ==
    LET raw == redis_get(store, key)
    IN IF raw # PyNone THEN raw.v ELSE PyNone

cache_list_with_params(store, key, data, params_payload) ==
    cache_list(store, key, [shape |-> "dict", data |-> data, params |-> params_payload])

\* isinstance(cached, dict) and cached.get("_params") == expected_params_payload
get_list_with_params_any_payload(store, key, expected_params_payload) ==
    LET cached == get_list(store, key)
    IN IF cached # PyNone /\ cached.shape = "dict" /\ "params" \in DOMAIN cached
       THEN Some(cached.data)
       ELSE PyNone
get_list_with_params(store, key, expected_params_payload) ==
    LET cached == get_list(store, key)
    IN IF /\ cached # PyNone
          /\ cached.shape = "dict"
          /\ "params" \in DOMAIN cached
          /\ cached.params = expected_params_payload
       THEN Some(cached.data)
       ELSE PyNone

make_books_list_key(store, params) ==
    make_list_key_with_payload("books:list", params, get_cache_version(store, "books:list"))
make_authors_list_key(store, params) ==
    make_list_key_with_payload("authors:list", params, get_cache_version(store, "authors:list"))

(***************************************************************************)
(* GET /books (src/routers/book.py, get_books_router)                      *)
(***************************************************************************)
SortParam(sort) ==
    PyList([i \in 1..Len(sort) |->
              PyDict(<<<<"sort_field", PyStr(sort[i].sort_field)>>,
                       <<"sort_direction", PyStr(sort[i].sort_direction)>>>>)])

\* the query parameters of a GET /books request (lines 42-53)
BooksRequest(q, title, author_id, limit, offset, cursor, sort) ==
    [q |-> q, title |-> title, isbn |-> PyNone, author_id |-> author_id,
     before |-> PyNone, after |-> PyNone, limit |-> limit, offset |-> offset,
     cursor |-> cursor, sort |-> sort]

\* the params dict of lines 63-74
BooksParams(req) ==
    <<<<"q", req.q>>, <<"title", req.title>>, <<"isbn", req.isbn>>,
      <<"author_id", req.author_id>>, <<"before", req.before>>, <<"after", req.after>>,
      <<"limit", req.limit>>, <<"offset", req.offset>>, <<"cursor", req.cursor>>,
      <<"sort", SortParam(EffectiveSort(req))>>>>

\* What a list handler did: the store it leaves, the response, and for the
\* record the key and payload it built, the document it found under the key
\* and where the response came from.
ListOutcome(store, kp, found, source, answer) ==
    [store |-> store, key |-> kp.key, payload |-> kp.payload, found |-> found,
     source |-> source, resp |-> answer]

\* lines 76-78 and 79-200 once the key is built
BooksLookup(store, db, req, kp) ==
    Bind({IF cache # PyNone
          THEN ListOutcome(store, kp, get_list(store, kp.key), "cache",
                           [status |-> HTTP200, body |-> cache.v])
          ELSE Bind({IF res.status # HTTP200
                     THEN ListOutcome(store, kp, get_list(store, kp.key), "error", res)
                     ELSE ListOutcome(cache_list_with_params(store, kp.key, res.body, kp.payload),
                                      kp, get_list(store, kp.key), "db", res) :
                        res \in {books_query(db, req)}}) :
             cache \in {get_list_with_params(store, kp.key, kp.payload)}})

\* the whole handler: the store it leaves and the response it gives
get_books_router(store, db, req) ==
    Bind({BooksLookup(store, db, req, kp) :
             kp \in {make_books_list_key(store, BooksParams(req))}})

(***************************************************************************)
(* Entity and fragment caches, invalidation (src/cache.py).                *)
(***************************************************************************)
\* the JSON text of a dict / of a list, as json.loads gives it back
JsonDict(d) == [shape |-> "dict", data |-> d]
JsonList(xs) == [shape |-> "list", data |-> xs]

\* await r.set(make_book_key(book_id), json.dumps(payload), ex=ttl)
\* (_persistent: written without a TTL)
cache_book_persistent(store, book_id, doc) ==
    StoreSet(store, make_book_key(book_id), [kind |-> "string", v |-> doc, ex |-> PyNone])
cache_book(store, book_id, doc) == redis_set(store, make_book_key(book_id), doc, DEFAULT_TTL)
get_book(store, book_id) == get_list(store, make_book_key(book_id))
cache_author(store, author_id, doc) ==
    redis_set(store, make_author_key(author_id), doc, DEFAULT_TTL)
get_author(store, author_id) == get_list(store, make_author_key(author_id))

\* SMEMBERS key: the empty set for a missing key, a WRONGTYPE error for a key
\* that holds a string
redis_smembers(store, key) ==
    IF key \in DOMAIN store /\ store[key].kind = "string"
    THEN [ok |-> FALSE, members |-> {}]
    ELSE [ok |-> TRUE, members |-> IF key \in DOMAIN store THEN store[key].v ELSE {}]

\* SADD key member: a missing key becomes a set without expiry, an existing
\* set keeps its expiry; a WRONGTYPE error for a key that holds a string
redis_sadd(store, key, member) ==
    IF key \in DOMAIN store /\ store[key].kind = "string"
    THEN [ok |-> FALSE, store |-> store]
    ELSE [ok |-> TRUE,
          store |-> StoreSet(store, key,
                             [kind |-> "set",
                              v |-> (IF key \in DOMAIN store THEN store[key].v ELSE {})
                                       \cup {member},
                              ex |-> IF key \in DOMAIN store THEN store[key].ex ELSE PyNone])]

\* for aid in author_ids: await r.sadd(make_author_books_key(aid), book_id)
RECURSIVE link_book_to_authors(_, _, _)
link_book_to_authors(store, book_id, author_ids) ==
    IF author_ids = {} THEN [ok |-> TRUE, store |-> store]
    ELSE LET aid == CHOOSE x \in author_ids : \A y \in author_ids : x <= y
             added == redis_sadd(store, make_author_books_key(aid), book_id)
         IN IF ~added.ok THEN added
            ELSE link_book_to_authors(added.store, book_id, author_ids \ {aid})

RECURSIVE DeleteKeys(_, _)
DeleteKeys(store, keys) ==
    IF keys = {} THEN store
    ELSE LET k == CHOOSE x \in keys : TRUE
         IN DeleteKeys(redis_delete(store, k), keys \ {k})

invalidate_book_and_counter(store, book_id) ==
    DeleteKeys(store, {make_book_key(book_id), make_reviews_key(book_id),
                       "book:" \o ToString(book_id) \o ":authors",
                       VersionKey("books:list")})
invalidate_book(store, book_id) ==
    DeleteKeys(store, {make_book_key(book_id), make_reviews_key(book_id),
                       "book:" \o ToString(book_id) \o ":authors"})

\* the store invalidate_author leaves, and whether it returned (ok) or raised
\* (_own_keys: the related books' entries are left in place)
invalidate_author_own_keys(store, author_id, book_ids) ==
    LET s1 == redis_delete(store, make_author_key(author_id))
        author_books_key == make_author_books_key(author_id)
        sm == IF book_ids = {} THEN redis_smembers(s1, author_books_key)
              ELSE [ok |-> TRUE, members |-> book_ids]
    IN IF ~sm.ok THEN [store |-> s1, ok |-> FALSE]
       ELSE [store |-> redis_delete(s1, author_books_key), ok |-> TRUE]
invalidate_author(store, author_id, book_ids) ==
    LET s1 == redis_delete(store, make_author_key(author_id))
        author_books_key == make_author_books_key(author_id)
        sm == IF book_ids = {} THEN redis_smembers(s1, author_books_key)
              ELSE [ok |-> TRUE, members |-> book_ids]
    IN IF ~sm.ok THEN [store |-> s1, ok |-> FALSE]
       ELSE [store |-> redis_delete(
                          DeleteKeys(s1, {make_book_key(b) : b \in sm.members}
                                         \cup {make_reviews_key(b) : b \in sm.members}),
                          author_books_key),
             ok |-> TRUE]

\* for aid in author_ids: invalidate_author(aid, r, book_ids=[book_id])
RECURSIVE InvalidateEach(_, _, _)
InvalidateEach(store, author_ids, book_id) ==
    IF author_ids = {} THEN store
    ELSE LET a == CHOOSE x \in author_ids : TRUE
         IN InvalidateEach(invalidate_author(store, a, {book_id}).store,
                           author_ids \ {a}, book_id)

(***************************************************************************)
(* Response models (src/schemas).                                          *)
(***************************************************************************)
HTTP204 == 204
HTTP404 == 404

RECURSIVE SortedIds(_)
SortedIds(S) ==
    IF S = {} THEN <<>>
    ELSE LET m == CHOOSE x \in S : \A y \in S : x <= y
         IN <<m>> \o SortedIds(S \ {m})

BookReviews(db, b) == {r \in DOMAIN db.reviews : db.reviews[r].book_id = b}

BookBase(db, b) == [id |-> b, title |-> db.books[b].title, year |-> db.books[b].year]
AuthorBase(db, a) == [id |-> a, name |-> db.authors[a].name]
ReviewBase(db, r) == [rating |-> db.reviews[r].rating]

BookDetailRead(db, b) ==
    [id |-> b, title |-> db.books[b].title, year |-> db.books[b].year,
     authors |-> {AuthorBase(db, a) : a \in BookAuthors(db, b)},
     reviews |-> [i \in 1..Cardinality(BookReviews(db, b)) |->
                    ReviewBase(db, SortedIds(BookReviews(db, b))[i])]]

AuthorRead(db, a) ==
    [id |-> a, name |-> db.authors[a].name,
     books |-> {BookBase(db, b) : b \in AuthorBooks(db, a)}]

ReviewRead(db, r) ==
    [id |-> r, book_id |-> db.reviews[r].book_id,
     reviewer_name |-> db.reviews[r].reviewer_name, rating |-> db.reviews[r].rating,
     book |-> BookBase(db, db.reviews[r].book_id)]

(***************************************************************************)
(* The read handlers other than GET /books.  Each gives the store it       *)
(* leaves, where the answer came from and the response.                    *)
(***************************************************************************)
EntityOutcome(store, source, status, body) ==
    [store |-> store, key |-> PyNone, payload |-> PyNone, found |-> PyNone,
     source |-> source, resp |-> [status |-> status, body |-> body]]

get_book_router(store, db, book_id) ==
    Bind({IF cached # PyNone THEN EntityOutcome(store, "cache", HTTP200, cached.data)
          ELSE IF book_id \notin DOMAIN db.books
          THEN EntityOutcome(store, "error", HTTP404, PyNone)
          ELSE Bind({EntityOutcome(cache_book(store, book_id, JsonDict(payload)),
                                   "db", HTTP200, payload) :
                        payload \in {BookDetailRead(db, book_id)}}) :
             cached \in {get_book(store, book_id)}})

get_reviews(store, db, book_id) ==
    Bind({IF cached # PyNone THEN EntityOutcome(store, "cache", HTTP200, cached.data)
          ELSE IF book_id \notin DOMAIN db.books
          THEN EntityOutcome(store, "error", HTTP404, PyNone)
          ELSE Bind({EntityOutcome(cache_list(store, make_reviews_key(book_id),
                                              JsonList(payload)),
                                   "db", HTTP200, payload) :
                        payload \in {[i \in 1..Cardinality(BookReviews(db, book_id)) |->
                                        ReviewRead(db, SortedIds(BookReviews(db, book_id))[i])]}}) :
             cached \in {get_list(store, make_reviews_key(book_id))}})

get_author_router(store, db, author_id) ==
    Bind({IF cached # PyNone THEN EntityOutcome(store, "cache", HTTP200, cached.data)
          ELSE IF author_id \notin DOMAIN db.authors
          THEN EntityOutcome(store, "error", HTTP404, PyNone)
          ELSE Bind({EntityOutcome(cache_author(store, author_id, JsonDict(serialized)),
                                   "db", HTTP200, serialized) :
                        serialized \in {AuthorRead(db, author_id)}}) :
             cached \in {get_author(store, author_id)}})

get_author_books(store, db, author_id) ==
    Bind({IF cached # PyNone THEN EntityOutcome(store, "cache", HTTP200, cached.data)
          ELSE IF author_id \notin DOMAIN db.authors
          THEN EntityOutcome(store, "error", HTTP404, PyNone)
          ELSE Bind({EntityOutcome(cache_list(store, make_author_books_key(author_id),
                                              JsonList(payload)),
                                   "db", HTTP200, payload) :
                        payload \in {{BookBase(db, b) : b \in AuthorBooks(db, author_id)}}}) :
             cached \in {get_list(store, make_author_books_key(author_id))}})

\* GET /authors: the params dict of line 38
AuthorsParams(req) ==
    <<<<"q", req.q>>, <<"name", req.name>>, <<"email", req.email>>,
      <<"limit", req.limit>>, <<"offset", req.offset>>>>

AuthorsRequest(q, name, limit, offset) ==
    [q |-> q, name |-> name, email |-> PyNone, limit |-> limit, offset |-> offset]

\* lines 42-71: filters, the ranked order for q, id ascending, LIMIT / OFFSET.
\* No author row of the model has an email, so an email filter matches none.
authors_query(db, req) ==
    LET matching == {a \in DOMAIN db.authors :
                        /\ (Truthy(req.name) => db.authors[a].name = req.name.v)
                        /\ ~Truthy(req.email)
                        /\ (Truthy(req.q) => db.authors[a].nsim > 0)}
        rows == {[id |-> a, total |-> IF Truthy(req.q) THEN 70 * db.authors[a].nsim ELSE 0] :
                    a \in matching}
        ordered == OrderRows(rows, <<[sort_field |-> by_similarity, sort_direction |-> SortDesc]>>)
        page == Take(Drop(ordered, req.offset.v), req.limit.v)
    IN [i \in 1..Len(page) |-> AuthorRead(db, page[i].id)]

AuthorsLookup(store, db, req, kp) ==
    Bind({IF cache # PyNone
          THEN ListOutcome(store, kp, get_list(store, kp.key), "cache",
                           [status |-> HTTP200, body |-> cache.v])
          ELSE Bind({ListOutcome(cache_list_with_params(store, kp.key, serialized, kp.payload),
                                 kp, get_list(store, kp.key), "db",
                                 [status |-> HTTP200, body |-> serialized]) :
                        serialized \in {authors_query(db, req)}}) :
             cache \in {get_list_with_params(store, kp.key, kp.payload)}})

get_authors_router(store, db, req) ==
    Bind({AuthorsLookup(store, db, req, kp) :
             kp \in {make_authors_list_key(store, AuthorsParams(req))}})

(***************************************************************************)
(* Spec: the API served one request at a time against a fresh cache.       *)
(* Every action is one whole handler: its relational change, every cache   *)
(* delete and version bump it issues, and its response.                    *)
(***************************************************************************)
BookIds == 1..MaxBooks
AuthorIds == 1..MaxAuthors
ReviewIds == 1..MaxReviews
Titles == {"t1", "t2"}
Names == {"n1", "n2"}
Reviewers == {"r1"}
DefaultLimit == 20

NewBook(title) == [title |-> title, year |-> 2000, fts |-> 0, tsim |-> 0]
NewAuthor(name) == [name |-> name, nsim |-> 0]
NewReview(book_id, reviewer_name) ==
    [book_id |-> book_id, reviewer_name |-> reviewer_name, rating |-> 5]

\* GET /books with no filter or a title filter, GET /authors with no filter
BooksRequests ==
    {BooksRequest(PyNone, t, PyNone, PyInt(DefaultLimit), PyNone, PyNone, <<>>) :
        t \in {PyNone} \cup {PyStr(x) : x \in Titles}}
AuthorsRequests == {AuthorsRequest(PyNone, PyNone, PyInt(DefaultLimit), PyInt(0))}

\* PATCH /books/{id} bodies: the fields that are set
BookPatches == {[title |-> t] : t \in Titles}
\* book_ids of PATCH /authors/{id}: absent (None) or a list
OptionalBookIds == {PyNone} \cup {[t |-> "list", v |-> S] : S \in SUBSET BookIds}

\* a library filled through the API or by the seed scripts
SeedLibrary ==
    /\ books = (1 :> NewBook("t1"))
    /\ authors = (1 :> NewAuthor("n1"))
    /\ links = {<<1, 1>>}
    /\ reviews = (1 :> NewReview(1, "r1"))
    /\ nextBookId = 2
    /\ nextAuthorId = 2
    /\ nextReviewId = 2

\* the rows of SeedLibrary
SeedDb ==
    [books |-> (1 :> NewBook("t1")), authors |-> (1 :> NewAuthor("n1")),
     links |-> {<<1, 1>>}, reviews |-> (1 :> NewReview(1, "r1"))]

\* the counters after the three creates that build SeedLibrary
SeededCounters ==
    (VersionKey("books:list") :> [kind |-> "string", v |-> ToString(1), ex |-> PyNone])
    @@ (VersionKey("authors:list") :> [kind |-> "string", v |-> ToString(1), ex |-> PyNone])

Init ==
    /\ \/ EmptyDb /\ redis = EmptyStore
       \/ SeedLibrary /\ redis \in {EmptyStore, SeededCounters}
    /\ AppIdle
    /\ CurIdle
    /\ FailIdle
    /\ KeyIdle
    /\ VerIdle
    /\ PageIdle
    /\ ConcIdle

Answer(handler, out, servedOld) ==
    [handler |-> handler, status |-> out.resp.status, source |-> out.source,
     key |-> out.key, payload |-> out.payload, found |-> out.found,
     body |-> out.resp.body, servedOld |-> servedOld]

Done(handler, status) ==
    [handler |-> handler, status |-> status, source |-> "none",
     key |-> PyNone, payload |-> PyNone, found |-> PyNone,
     body |-> PyNone, servedOld |-> FALSE]

Served ==
    /\ ops' = ops + 1
    /\ UNCHANGED nonAppVars

\* raise HTTPException(...) before the commit and before any cache call
\* (_after_bump: the list version is bumped before the request is refused)
Rejected_after_bump(handler, status) ==
    /\ resp' = Done(handler, status)
    /\ redis' = bump_cache_version(redis, "books:list").store
    /\ UNCHANGED <<dbVars, fillAge>>
Rejected(handler, status) ==
    /\ resp' = Done(handler, status)
    /\ UNCHANGED <<redis, dbVars, fillAge>>

\* a book mutation committed: every list entry filled so far predates it
AgedFills == [k \in DOMAIN fillAge |-> "old"]

Bumped(store, name) == bump_cache_version(store, name).store

GetBooks(req) ==
    /\ ops < MaxOps
    /\ \E out \in {get_books_router(redis, DB, req)} :
          /\ redis' = out.store
          /\ resp' = Answer("get_books_router", out,
                            out.source = "cache" /\ fillAge[out.key] = "old")
          /\ fillAge' = IF out.source = "db" THEN (out.key :> "fresh") @@ fillAge
                        ELSE fillAge
    /\ UNCHANGED dbVars
    /\ Served

GetAuthors(req) ==
    /\ ops < MaxOps
    /\ \E out \in {get_authors_router(redis, DB, req)} :
          /\ redis' = out.store
          /\ resp' = Answer("get_authors_router", out, FALSE)
    /\ UNCHANGED <<dbVars, fillAge>>
    /\ Served

GetBook(book_id) ==
    /\ ops < MaxOps
    /\ \E out \in {get_book_router(redis, DB, book_id)} :
          /\ redis' = out.store
          /\ resp' = Answer("get_book_router", out, FALSE)
    /\ UNCHANGED <<dbVars, fillAge>>
    /\ Served

GetReviews(book_id) ==
    /\ ops < MaxOps
    /\ \E out \in {get_reviews(redis, DB, book_id)} :
          /\ redis' = out.store
          /\ resp' = Answer("get_reviews", out, FALSE)
    /\ UNCHANGED <<dbVars, fillAge>>
    /\ Served

GetAuthor(author_id) ==
    /\ ops < MaxOps
    /\ \E out \in {get_author_router(redis, DB, author_id)} :
          /\ redis' = out.store
          /\ resp' = Answer("get_author_router", out, FALSE)
    /\ UNCHANGED <<dbVars, fillAge>>
    /\ Served

GetAuthorBooks(author_id) ==
    /\ ops < MaxOps
    /\ \E out \in {get_author_books(redis, DB, author_id)} :
          /\ redis' = out.store
          /\ resp' = Answer("get_author_books", out, FALSE)
    /\ UNCHANGED <<dbVars, fillAge>>
    /\ Served

Restrict(f, S) == [x \in S |-> f[x]]

CreateBook(title, author_ids) ==
    /\ ops < MaxOps
    /\ IF author_ids # {} /\ ~(author_ids \subseteq DOMAIN authors)
       THEN Rejected("create_book", HTTP400)
       ELSE /\ nextBookId <= MaxBooks
            /\ books' = (nextBookId :> NewBook(title)) @@ books
            /\ links' = links \cup {<<a, nextBookId>> : a \in author_ids}
            /\ nextBookId' = nextBookId + 1
            /\ redis' = InvalidateEach(Bumped(redis, "books:list"), author_ids, nextBookId)
            /\ fillAge' = AgedFills
            /\ resp' = Done("create_book", HTTP200)
            /\ UNCHANGED <<authors, reviews, nextAuthorId, nextReviewId>>
    /\ Served

CreateReview(book_id, reviewer_name) ==
    /\ ops < MaxOps
    /\ IF book_id \notin DOMAIN books
       THEN Rejected("create_review", HTTP404)
       ELSE IF \E r \in BookReviews(DB, book_id) : reviews[r].reviewer_name = reviewer_name
       THEN Rejected("create_review", HTTP400)
       ELSE /\ nextReviewId <= MaxReviews
            /\ reviews' = (nextReviewId :> NewReview(book_id, reviewer_name)) @@ reviews
            /\ nextReviewId' = nextReviewId + 1
            /\ redis' = invalidate_book(
                            InvalidateEach(redis, BookAuthors(DB, book_id), book_id), book_id)
            /\ resp' = Done("create_review", HTTP200)
            /\ UNCHANGED <<books, authors, links, nextBookId, nextAuthorId, fillAge>>
    /\ Served

ReplaceBook(book_id, title, author_ids) ==
    /\ ops < MaxOps
    /\ IF book_id \notin DOMAIN books
       THEN Rejected("replace_book", HTTP404)
       ELSE IF author_ids # {} /\ ~(author_ids \subseteq DOMAIN authors)
       THEN Rejected("replace_book", HTTP400)
       ELSE /\ books' = [books EXCEPT ![book_id] = NewBook(title)]
            /\ links' = {l \in links : l[2] # book_id} \cup {<<a, book_id>> : a \in author_ids}
            /\ redis' = Bumped(invalidate_book(
                                   InvalidateEach(redis, BookAuthors(DB, book_id) \cup author_ids,
                                                  book_id),
                                   book_id),
                               "books:list")
            /\ fillAge' = AgedFills
            /\ resp' = Done("replace_book", HTTP200)
            /\ UNCHANGED <<authors, reviews, nextBookId, nextAuthorId, nextReviewId>>
    /\ Served

UpdateAuthorList(book_id, new_author_list) ==
    /\ ops < MaxOps
    /\ IF book_id \notin DOMAIN books
       THEN Rejected("update_author_list", HTTP404)
       ELSE IF new_author_list # {} /\ ~(new_author_list \subseteq DOMAIN authors)
       THEN Rejected("update_author_list", HTTP400)
       ELSE /\ links' = {l \in links : l[2] # book_id}
                           \cup {<<a, book_id>> : a \in new_author_list}
            /\ redis' = Bumped(invalidate_book(
                                   InvalidateEach(redis,
                                                  BookAuthors(DB, book_id) \cup new_author_list,
                                                  book_id),
                                   book_id),
                               "books:list")
            /\ fillAge' = AgedFills
            /\ resp' = Done("update_author_list", HTTP200)
            /\ UNCHANGED <<books, authors, reviews, nextBookId, nextAuthorId, nextReviewId>>
    /\ Served

\* for key, val in update_data.items(): setattr(old_book, key, val)
Patched(row, update_data) ==
    [f \in DOMAIN row |-> IF f \in DOMAIN update_data THEN update_data[f] ELSE row[f]]

UpdateBook(book_id, update_data) ==
    /\ ops < MaxOps
    /\ IF book_id \notin DOMAIN books
       THEN Rejected("update_book", HTTP404)
       ELSE /\ books' = [books EXCEPT ![book_id] = Patched(@, update_data)]
            /\ redis' = Bumped(invalidate_book(redis, book_id), "books:list")
            /\ fillAge' = AgedFills
            /\ resp' = Done("update_book", HTTP200)
            /\ UNCHANGED <<authors, links, reviews, nextBookId, nextAuthorId, nextReviewId>>
    /\ Served

DeleteBook(book_id) ==
    /\ ops < MaxOps
    /\ IF book_id \notin DOMAIN books
       THEN Rejected("delete_book", HTTP404)
       ELSE /\ books' = Restrict(books, DOMAIN books \ {book_id})
            /\ links' = {l \in links : l[2] # book_id}
            /\ reviews' = Restrict(reviews, DOMAIN reviews \ BookReviews(DB, book_id))
            /\ redis' = Bumped(invalidate_book(
                                   InvalidateEach(redis, BookAuthors(DB, book_id), book_id),
                                   book_id),
                               "books:list")
            /\ fillAge' = AgedFills
            /\ resp' = Done("delete_book", HTTP204)
            /\ UNCHANGED <<authors, nextBookId, nextAuthorId, nextReviewId>>
    /\ Served

DeleteReview(review_id) ==
    /\ ops < MaxOps
    /\ IF review_id \notin DOMAIN reviews
       THEN Rejected("delete_review", HTTP404)
       ELSE /\ reviews' = Restrict(reviews, DOMAIN reviews \ {review_id})
            /\ redis' = invalidate_book(redis, reviews[review_id].book_id)
            /\ resp' = Done("delete_review", HTTP204)
            /\ UNCHANGED <<books, authors, links, nextBookId, nextAuthorId, nextReviewId,
                           fillAge>>
    /\ Served

CreateAuthor(name, book_ids) ==
    /\ ops < MaxOps
    /\ IF book_ids # {} /\ ~(book_ids \subseteq DOMAIN books)
       THEN Rejected("create_author", HTTP400)
       ELSE /\ nextAuthorId <= MaxAuthors
            /\ authors' = (nextAuthorId :> NewAuthor(name)) @@ authors
            /\ links' = links \cup {<<nextAuthorId, b>> : b \in book_ids}
            /\ nextAuthorId' = nextAuthorId + 1
            /\ redis' = Bumped(IF book_ids # {}
                               THEN Bumped(invalidate_author(redis, nextAuthorId, book_ids).store,
                                           "books:list")
                               ELSE redis,
                               "authors:list")
            /\ resp' = Done("create_author", HTTP200)
            /\ UNCHANGED <<books, reviews, nextBookId, nextReviewId, fillAge>>
    /\ Served

\* lines 190-195, 237-242, 261-264: invalidate_author, then the bumps unless
\* invalidate_author raised
\* (_authors_list_only: 'if affected_book_ids: bump books:list' left out)
AuthorInvalidation_authors_list_only(handler, status, author_id, affected_book_ids) ==
    \E inv \in {invalidate_author(redis, author_id, affected_book_ids)} :
       IF ~inv.ok
       THEN /\ redis' = inv.store
            /\ resp' = Done(handler, HTTP500)
       ELSE /\ redis' = Bumped(inv.store, "authors:list")
            /\ resp' = Done(handler, status)
AuthorInvalidation(handler, status, author_id, affected_book_ids) ==
    \E inv \in {invalidate_author(redis, author_id, affected_book_ids)} :
       IF ~inv.ok
       THEN /\ redis' = inv.store
            /\ resp' = Done(handler, HTTP500)
       ELSE /\ redis' = IF affected_book_ids # {}
                        THEN Bumped(Bumped(inv.store, "authors:list"), "books:list")
                        ELSE Bumped(inv.store, "authors:list")
            /\ resp' = Done(handler, status)

ReplaceAuthor(author_id, name, book_ids) ==
    /\ ops < MaxOps
    /\ IF author_id \notin DOMAIN authors
       THEN Rejected("replace_author", HTTP404)
       ELSE IF book_ids # {} /\ ~(book_ids \subseteq DOMAIN books)
       THEN Rejected("replace_author", HTTP400)
       ELSE /\ authors' = [authors EXCEPT ![author_id].name = name]
            /\ links' = {l \in links : l[1] # author_id} \cup {<<author_id, b>> : b \in book_ids}
            /\ AuthorInvalidation("replace_author", HTTP200, author_id,
                                  AuthorBooks(DB, author_id) \cup book_ids)
            /\ UNCHANGED <<books, reviews, nextBookId, nextAuthorId, nextReviewId, fillAge>>
    /\ Served

UpdateAuthor(author_id, name, book_ids) ==
    /\ ops < MaxOps
    /\ IF author_id \notin DOMAIN authors
       THEN Rejected("update_author", HTTP404)
       ELSE IF book_ids # PyNone /\ book_ids.v # {} /\ ~(book_ids.v \subseteq DOMAIN books)
       THEN Rejected("update_author", HTTP400)
       ELSE /\ authors' = [authors EXCEPT ![author_id].name = name]
            /\ links' = IF book_ids = PyNone THEN links
                        ELSE {l \in links : l[1] # author_id}
                                \cup {<<author_id, b>> : b \in book_ids.v}
            /\ AuthorInvalidation("update_author", HTTP200, author_id,
                                  AuthorBooks(DB, author_id)
                                    \cup (IF book_ids = PyNone THEN {} ELSE book_ids.v))
            /\ UNCHANGED <<books, reviews, nextBookId, nextAuthorId, nextReviewId, fillAge>>
    /\ Served

DelAuthor(author_id) ==
    /\ ops < MaxOps
    /\ IF author_id \notin DOMAIN authors
       THEN Rejected("del_author", HTTP404)
       ELSE /\ authors' = Restrict(authors, DOMAIN authors \ {author_id})
            /\ links' = {l \in links : l[1] # author_id}
            /\ AuthorInvalidation("del_author", HTTP204, author_id, AuthorBooks(DB, author_id))
            /\ UNCHANGED <<books, reviews, nextBookId, nextAuthorId, nextReviewId, fillAge>>
    /\ Served

Next ==
    \/ \E req \in BooksRequests : GetBooks(req)
    \/ \E req \in AuthorsRequests : GetAuthors(req)
    \/ \E b \in BookIds : GetBook(b)
    \/ \E b \in BookIds : GetReviews(b)
    \/ \E a \in AuthorIds : GetAuthor(a)
    \/ \E a \in AuthorIds : GetAuthorBooks(a)
    \/ \E t \in Titles, A \in SUBSET AuthorIds : CreateBook(t, A)
    \/ \E b \in BookIds, n \in Reviewers : CreateReview(b, n)
    \/ \E b \in BookIds, t \in Titles, A \in SUBSET AuthorIds : ReplaceBook(b, t, A)
    \/ \E b \in BookIds, A \in SUBSET AuthorIds : UpdateAuthorList(b, A)
    \/ \E b \in BookIds, u \in BookPatches : UpdateBook(b, u)
    \/ \E b \in BookIds : DeleteBook(b)
    \/ \E r \in ReviewIds : DeleteReview(r)
    \/ \E n \in Names, B \in SUBSET BookIds : CreateAuthor(n, B)
    \/ \E a \in AuthorIds, n \in Names, B \in SUBSET BookIds : ReplaceAuthor(a, n, B)
    \/ \E a \in AuthorIds, n \in Names, B \in OptionalBookIds : UpdateAuthor(a, n, B)
    \/ \E a \in AuthorIds : DelAuthor(a)

Spec == Init /\ [][Next]_vars

Answered == "handler" \in DOMAIN resp

\* C1: in sequential execution from any store state, the unset books:list
\* counter included, a GET /books after a book create, PATCH, PUT, PUT-authors
\* or DELETE has returned is never answered from a list entry that was filled
\* before that mutation.
C1_NoListEntryFromBeforeMutation ==
    (Answered /\ resp.handler = "get_books_router") => ~resp.servedOld

MutationHandlers ==
    {"create_book", "create_review", "replace_book", "update_author_list", "update_book",
     "delete_book", "delete_review", "create_author", "replace_author", "update_author",
     "del_author"}

StoredVersion(store, name) ==
    IF VersionKey(name) \in DOMAIN store THEN ParseInt(store[VersionKey(name)].v) ELSE 0

\* C7: over every sequence of requests the value get_cache_version reports for
\* books:list and authors:list never decreases; no handler deletes, overwrites
\* or resets a counter, and a counter changes only by the increment a mutation
\* handler issues after its commit.
C7_VersionNeverDecreases ==
    [][\A name \in VersionNames :
          /\ get_cache_version(redis', name) >= get_cache_version(redis, name)
          /\ (VersionKey(name) \in DOMAIN redis => VersionKey(name) \in DOMAIN redis')
          /\ (StoredVersion(redis', name) # StoredVersion(redis, name)
                => /\ StoredVersion(redis', name) = StoredVersion(redis, name) + 1
                   /\ resp'.handler \in MutationHandlers
                   /\ resp'.status \in {HTTP200, HTTP204})]_vars

C7_Witness ==
    /\ Answered
    /\ resp.handler \in MutationHandlers
    /\ \E name \in VersionNames : get_cache_version(redis, name) >= 2

ListHandlers == {"get_books_router", "get_authors_router"}

\* C8: a list handler answers from a cached entry only if the payload stored in
\* the entry equals the request's normalized payload; an entry found under the
\* key with another payload is a miss, the result is recomputed and stored.
C8_ListHitNeedsEqualPayload ==
    (Answered /\ resp.handler \in ListHandlers) =>
        /\ resp.source = "cache" =>
              /\ resp.found # PyNone
              /\ resp.found.params = resp.payload
              /\ resp.body = resp.found.data
        /\ (resp.found # PyNone /\ resp.found.params # resp.payload) =>
              /\ resp.source = "db"
              /\ get_list(redis, resp.key) =
                    [shape |-> "dict", data |-> resp.body, params |-> resp.payload]

C8_Witness ==
    /\ Answered
    /\ resp.handler \in ListHandlers
    /\ resp.found # PyNone
    /\ resp.found.params # resp.payload
    /\ resp.source = "db"

BookWriteHandlers == {"update_book", "replace_book", "update_author_list", "delete_book"}
AuthorWriteHandlers == {"update_author", "replace_author", "del_author"}

\* the step committed a change or the removal of the book / of the author
BookWritten(b) ==
    /\ b \in DOMAIN books
    /\ \/ b \notin DOMAIN books'
       \/ books'[b] # books[b]
       \/ {l \in links' : l[2] = b} # {l \in links : l[2] = b}
AuthorWritten(a) ==
    /\ a \in DOMAIN authors
    /\ \/ a \notin DOMAIN authors'
       \/ authors'[a] # authors[a]
       \/ {l \in links' : l[1] = a} # {l \in links : l[1] = a}

\* C20: in sequential execution, once a handler that committed an update or
\* a delete of book B is over, book:{B} and book:{B}:reviews are absent from
\* the store; once a handler that committed an update or a delete of author A
\* is over, author:{A} and author:{A}:books are absent; from every store
\* state the handler can start in.
C20_WrittenEntityKeysAbsent ==
    [][/\ \A b \in BookIds :
             (resp'.handler \in BookWriteHandlers /\ BookWritten(b))
                => /\ make_book_key(b) \notin DOMAIN redis'
                   /\ make_reviews_key(b) \notin DOMAIN redis'
       /\ \A a \in AuthorIds :
             (resp'.handler \in AuthorWriteHandlers /\ AuthorWritten(a))
                => /\ make_author_key(a) \notin DOMAIN redis'
                   /\ make_author_books_key(a) \notin DOMAIN redis']_vars

\* the step served a mutation handler that reached its commit: a handler
\* that answers 400 or 404 has raised before it
Committed ==
    /\ ops' = ops + 1
    /\ resp'.handler \in MutationHandlers
    /\ resp'.status \notin {HTTP400, HTTP404}

AuthorLinks(ls, a) == {l \in ls : l[1] = a}

\* C21: whenever a committed mutation adds or removes a link of author A
\* (through a book endpoint or an author endpoint) or deletes A or one of
\* A's books, a fragment author:{A}:books cached before it is deleted, so no
\* later GET /authors/{A}/books is answered from it.
C21_MembershipFragmentDeleted ==
    [][\A a \in AuthorIds :
          (/\ Committed
           /\ make_author_books_key(a) \in DOMAIN redis
           /\ \/ AuthorLinks(links', a) # AuthorLinks(links, a)
              \/ a \in DOMAIN authors /\ a \notin DOMAIN authors')
             => make_author_books_key(a) \notin DOMAIN redis']_vars

BookMutationHandlers ==
    {"create_book", "replace_book", "update_author_list", "update_book", "delete_book"}
AuthorMutationHandlers == {"create_author", "replace_author", "update_author", "del_author"}

\* C22: every book create, update or delete handler that commits bumps the
\* books:list counter, and every author create, update or delete handler
\* that commits bumps the authors:list counter, whatever changed and
\* whatever the cache held.
C22_CommitBumpsOwnList ==
    [][Committed
          => /\ resp'.handler \in BookMutationHandlers
                  => StoredVersion(redis', "books:list")
                        = StoredVersion(redis, "books:list") + 1
             /\ resp'.handler \in AuthorMutationHandlers
                  => StoredVersion(redis', "authors:list")
                        = StoredVersion(redis, "authors:list") + 1]_vars

\* the step renamed an author who has a book
LinkedAuthorRenamed ==
    \E a \in DOMAIN authors \cap DOMAIN authors' :
       authors'[a].name # authors[a].name /\ AuthorBooks(DB, a) # {}

\* C23: every committed mutation that adds or removes an author-book link,
\* or renames an author who has at least one book, bumps the books:list
\* counter, through a book endpoint and through an author endpoint alike.
C23_LinkChangeBumpsBooksList ==
    [][(Committed /\ (links' # links \/ LinkedAuthorRenamed))
          => StoredVersion(redis', "books:list")
                = StoredVersion(redis, "books:list") + 1]_vars

\* the first request of a run renamed the seeded author through PATCH
\* /authors/1 and left the books:list counter set
C23_Witness ==
    /\ Answered
    /\ ops = 1
    /\ resp.handler = "update_author"
    /\ resp.status = HTTP200
    /\ links = {<<1, 1>>}
    /\ authors[1].name # NewAuthor("n1").name
    /\ StoredVersion(redis, "books:list") >= 1

\* C34: every GET /authors, whatever requests were served before it, is
\* answered with the list the relational store gives for its parameters.
C34_AuthorsListIsCurrent ==
    [][(ops' = ops + 1 /\ resp'.handler = "get_authors_router")
          => \A req \in AuthorsRequests :
                resp'.payload = make_authors_list_key(redis, AuthorsParams(req)).payload
                   => resp'.body = authors_query(DB, req)]_vars

\* the embedded books of an answer carry the title and year of their rows
BooksAreCurrent(bs) ==
    \A b \in bs : b.id \in DOMAIN books => b = BookBase(DB, b.id)

\* C35: every GET /authors/{a} and GET /authors/{a}/books answered 200,
\* whatever requests were served before it (a PATCH /books/{id} of a book of
\* author a among them), shows each book that still exists with its current
\* title and year.
C35_AuthorReadsShowCurrentBooks ==
    [][ops' = ops + 1
          => /\ (resp'.handler = "get_author_router" /\ resp'.status = HTTP200)
                   => BooksAreCurrent(resp'.body.books)
             /\ (resp'.handler = "get_author_books" /\ resp'.status = HTTP200)
                   => BooksAreCurrent(resp'.body)]_vars

\* C38: a request answered 404 or 400 leaves every row and sequence of the
\* relational store, every cache entry and both version counters as they
\* were; a read answered 404 or 400 in particular writes no entry.
C38_RejectedChangesNothing ==
    [][(ops' = ops + 1 /\ resp'.status \in {HTTP400, HTTP404})
          => UNCHANGED <<redis, dbVars>>]_vars

\* POST /books/1/reviews by a reviewer who reviewed book 1 already was refused
\* while the cache held the book's entry and the counters
C38_Witness ==
    /\ Answered
    /\ resp.handler = "create_review"
    /\ resp.status = HTTP400
    /\ make_book_key(1) \in DOMAIN redis
    /\ VersionKey("books:list") \in DOMAIN redis
    /\ DB = SeedDb

\* C31: every GET /books/{id}, whatever requests were served before it, is
\* answered 200 with the book's current row, linked authors and reviews, or
\* 404 when there is no such book.
C31_BookReadIsCurrent ==
    [][(ops' = ops + 1 /\ resp'.handler = "get_book_router")
          => \A b \in BookIds :
                resp' = Answer("get_book_router", get_book_router(redis, DB, b), FALSE)
                   => IF b \in DOMAIN books
                      THEN resp'.status = HTTP200 /\ resp'.body = BookDetailRead(DB, b)
                      ELSE resp'.status = HTTP404]_vars

\* book 1 was renamed, its author renamed or its review removed, and GET
\* /books/1 is answered with the current state
C31_Witness ==
    /\ Answered
    /\ ops = MaxOps
    /\ resp.handler = "get_book_router"
    /\ resp.status = HTTP200
    /\ resp.source = "db"
    /\ resp.body = BookDetailRead(DB, 1)
    /\ resp.body # BookDetailRead(SeedDb, 1)
    /\ nextBookId = 2

(***************************************************************************)
(* SpecConc: GET /books requests run step by step (version read and key    *)
(* build, cache GET, relational query, cache SET) while PUT /books/{id}    *)
(* requests run step by step (commit, invalidate_author per affected       *)
(* author, invalidate_book, INCR of the books:list counter, return).       *)
(***************************************************************************)
Readers == {"r1", "r2"}
\* requests served per reader, and PUT /books/{id} requests in a behaviour
MaxReads == 1
MaxWrites == 2

IdleReader(n) ==
    [pc |-> "idle", n |-> n, req |-> NoReq, version |-> 0, need |-> 0, kp |-> NoBuild,
     body |-> PyNone, seen |-> 0]

IdleWriter(n, hist, returned) ==
    [pc |-> "idle", n |-> n, book_id |-> 0, todo |-> {}, ret |-> 0, hist |-> hist,
     returned |-> returned]

ConcInit ==
    /\ SeedLibrary
    /\ redis \in {EmptyStore, SeededCounters}
    /\ rd = [r \in Readers |-> IdleReader(0)]
    /\ wr = IdleWriter(0, <<DB>>, <<>>)
    /\ AppIdle
    /\ CurIdle
    /\ FailIdle
    /\ KeyIdle
    /\ VerIdle
    /\ PageIdle

\* the latest commit whose bump has returned the version value v: 0 for none
LastReturned(v) ==
    SetMax({0} \cup {g \in 1..Len(wr.returned) : wr.returned[g] = v})

\* lines 63-75: the version is read and the key built
ReadVersion(r, req) ==
    /\ rd[r].pc = "idle"
    /\ rd[r].n < MaxReads
    /\ \E kp \in {make_books_list_key(redis, BooksParams(req))} :
          rd' = [rd EXCEPT ![r] =
                    [pc |-> "get", n |-> rd[r].n + 1, req |-> req,
                     version |-> get_cache_version(redis, "books:list"),
                     need |-> LastReturned(get_cache_version(redis, "books:list")),
                     kp |-> kp, body |-> PyNone, seen |-> 0]]
    /\ UNCHANGED <<redis, wr, dbVars>>
    /\ UNCHANGED nonConcVars

\* lines 76-78: a hit is returned
CacheGet(r) ==
    /\ rd[r].pc = "get"
    /\ \E cache \in {get_list_with_params(redis, rd[r].kp.key, rd[r].kp.payload)} :
          rd' = [rd EXCEPT ![r].pc = IF cache # PyNone THEN "done" ELSE "query",
                           ![r].body = IF cache # PyNone THEN cache.v ELSE PyNone]
    /\ UNCHANGED <<redis, wr, dbVars>>
    /\ UNCHANGED nonConcVars

\* lines 79-198: the statement runs; seen records how many relational states
\* there have been (the initial one and one per commit) when it ran
Query(r) ==
    /\ rd[r].pc = "query"
    /\ \E res \in {books_query(DB, rd[r].req)} :
          rd' = [rd EXCEPT ![r].pc = "fill", ![r].body = res.body,
                           ![r].seen = Len(wr.hist)]
    /\ UNCHANGED <<redis, wr, dbVars>>
    /\ UNCHANGED nonConcVars

\* lines 199-200: the result is cached and returned
Fill(r) ==
    /\ rd[r].pc = "fill"
    /\ redis' = cache_list_with_params(redis, rd[r].kp.key, rd[r].body, rd[r].kp.payload)
    /\ rd' = [rd EXCEPT ![r].pc = "done"]
    /\ UNCHANGED <<wr, dbVars>>
    /\ UNCHANGED nonConcVars

NextRequest(r) ==
    /\ rd[r].pc = "done"
    /\ rd' = [rd EXCEPT ![r] = IdleReader(rd[r].n)]
    /\ UNCHANGED <<redis, wr, dbVars>>
    /\ UNCHANGED nonConcVars

\* replace_book lines 341-376: the row is loaded, changed and committed
Commit(book_id, title, author_ids) ==
    /\ wr.pc = "idle"
    /\ wr.n < MaxWrites
    /\ book_id \in DOMAIN books
    /\ author_ids \subseteq DOMAIN authors
    /\ books' = [books EXCEPT ![book_id] = NewBook(title)]
    /\ links' = {l \in links : l[2] # book_id} \cup {<<a, book_id>> : a \in author_ids}
    /\ wr' = [wr EXCEPT !.pc = "authors", !.n = @ + 1, !.book_id = book_id,
                        !.todo = BookAuthors(DB, book_id) \cup author_ids,
                        !.hist = Append(@, [DB EXCEPT !.books = books', !.links = links'])]
    /\ UNCHANGED <<redis, rd, authors, reviews, nextBookId, nextAuthorId, nextReviewId>>
    /\ UNCHANGED nonConcVars

\* lines 378-379, one call of the loop
InvalidateAuthorStep(aid) ==
    /\ wr.pc = "authors"
    /\ aid \in wr.todo
    /\ redis' = invalidate_author(redis, aid, {wr.book_id}).store
    /\ wr' = [wr EXCEPT !.todo = @ \ {aid}]
    /\ UNCHANGED <<rd, dbVars>>
    /\ UNCHANGED nonConcVars

\* line 380
InvalidateBookStep ==
    /\ wr.pc = "authors"
    /\ wr.todo = {}
    /\ redis' = invalidate_book(redis, wr.book_id)
    /\ wr' = [wr EXCEPT !.pc = "bump"]
    /\ UNCHANGED <<rd, dbVars>>
    /\ UNCHANGED nonConcVars

\* line 381: the store runs the INCR
BumpStep ==
    /\ wr.pc = "bump"
    /\ \E out \in {bump_cache_version(redis, "books:list")} :
          /\ redis' = out.store
          /\ wr' = [wr EXCEPT !.pc = "bumped", !.ret = out.reply]
    /\ UNCHANGED <<rd, dbVars>>
    /\ UNCHANGED nonConcVars

\* line 381: bump_cache_version returns, then the handler (line 382)
BumpReturned ==
    /\ wr.pc = "bumped"
    /\ wr' = IdleWriter(wr.n, wr.hist, Append(wr.returned, wr.ret))
    /\ UNCHANGED <<redis, rd, dbVars>>
    /\ UNCHANGED nonConcVars

ConcNext ==
    \/ \E r \in Readers, req \in BooksRequests : ReadVersion(r, req)
    \/ \E r \in Readers : CacheGet(r)
    \/ \E r \in Readers : Query(r)
    \/ \E r \in Readers : Fill(r)
    \/ \E r \in Readers : NextRequest(r)
    \/ \E b \in BookIds, t \in Titles, A \in SUBSET AuthorIds : Commit(b, t, A)
    \/ \E a \in AuthorIds : InvalidateAuthorStep(a)
    \/ InvalidateBookStep
    \/ BumpStep
    \/ BumpReturned

SpecConc == ConcInit /\ [][ConcNext]_vars

\* C2: a reader that built its key from a version value N read after the
\* writer's bump had returned N is answered, from the cache or by the query,
\* with the result of the query on the relational state the writer committed
\* or a later one, never on an earlier state.
C2_ReaderAfterBumpSeesCommit ==
    \A r \in Readers :
        (rd[r].pc = "done" /\ rd[r].need > 0) =>
            \E g \in rd[r].need..(Len(wr.hist) - 1) :
                rd[r].body = books_query(wr.hist[g + 1], rd[r].req).body

\* readers a and b both missed, ran their statements with no commit between
\* the two, and have both written key
BothFilled(a, b) ==
    /\ a # b
    /\ rd[a].pc = "done" /\ rd[b].pc = "done"
    /\ rd[a].seen > 0 /\ rd[b].seen > 0
    /\ rd[a].seen = rd[b].seen
    /\ rd[a].kp.key = rd[b].kp.key

\* the entry one fill of reader r alone leaves under its key
SingleFill(r) ==
    cache_list_with_params(EmptyStore, rd[r].kp.key, rd[r].body, rd[r].kp.payload)[rd[r].kp.key]

\* C29 as stated: two GET /books requests that built the same cache key, both
\* missed and ran their statements with no commit in between have written the
\* same value, and the entry under the key is the one a single fill leaves.
C29_SameKeyFillsAgree ==
    \A a, b \in Readers :
       BothFilled(a, b)
          => /\ rd[a].body = rd[b].body
             /\ redis[rd[a].kp.key] = SingleFill(a)

\* C29, amended: the same for two requests with the same normalized parameters
\* (and so the same key): in every interleaving of their steps with each other
\* and with a PUT /books/{id}.
C29_SameParamsFillsAgree ==
    \A a, b \in Readers :
       (BothFilled(a, b) /\ rd[a].kp.payload = rd[b].kp.payload)
          => /\ rd[a].body = rd[b].body
             /\ redis[rd[a].kp.key] = SingleFill(a)
             /\ redis[rd[a].kp.key] = SingleFill(b)

\* both readers missed before either filled, with a commit before their reads
C29_Witness ==
    /\ BothFilled("r1", "r2")
    /\ rd["r1"].kp.payload = rd["r2"].kp.payload
    /\ rd["r1"].seen = 2
    /\ rd["r1"].body = rd["r2"].body
    /\ redis[rd["r1"].kp.key] = SingleFill("r2")

(***************************************************************************)
(* SpecBook: GET /books/{id} requests run step by step (cache GET,         *)
(* relational read, cache SET) while PATCH /books/{id} requests run step   *)
(* by step (commit, invalidate_book, INCR of the books:list counter), and  *)
(* the store expires book entries.                                         *)
(***************************************************************************)
\* PATCH /books/{id} requests in a behaviour of SpecBook
MaxPatches == 2

\* a reader of SpecBook: seen is the number of relational states there had
\* been when its statement ran (0: it did not run), inv the number of
\* invalidate_book calls on its book that had returned when it wrote the entry
BookReader(pc_, book_id, body, seen, inv) ==
    [pc |-> pc_, book_id |-> book_id, body |-> body, seen |-> seen, inv |-> inv]

\* the writer of SpecBook: inv counts the invalidate_book calls per book
BookWriter(pc_, n, book_id, hist, inv) ==
    [pc |-> pc_, n |-> n, book_id |-> book_id, hist |-> hist, inv |-> inv]

BookInit ==
    /\ SeedLibrary
    /\ redis \in {SeededCounters, get_book_router(SeededCounters, SeedDb, 1).store}
    /\ rd = [r \in Readers |-> BookReader("idle", 0, PyNone, 0, 0)]
    /\ wr = BookWriter("idle", 0, 0, <<DB>>, [b \in BookIds |-> 0])
    /\ AppIdle
    /\ CurIdle
    /\ FailIdle
    /\ KeyIdle
    /\ VerIdle
    /\ PageIdle

\* get_book_router lines 209-211: a hit is returned
BookCacheGet(r, book_id) ==
    /\ rd[r].pc = "idle"
    /\ \E cached \in {get_book(redis, book_id)} :
          rd' = [rd EXCEPT ![r] =
                    IF cached # PyNone
                    THEN BookReader("done", book_id, cached.data, 0, 0)
                    ELSE BookReader("query", book_id, PyNone, 0, 0)]
    /\ UNCHANGED <<redis, wr, dbVars>>
    /\ UNCHANGED nonConcVars

\* lines 213-223: the statement runs; no row ends the request with 404
BookQuery(r) ==
    /\ rd[r].pc = "query"
    /\ rd' = [rd EXCEPT ![r] =
                 IF rd[r].book_id \notin DOMAIN books
                 THEN BookReader("done", rd[r].book_id, PyNone, 0, 0)
                 ELSE BookReader("fill", rd[r].book_id, BookDetailRead(DB, rd[r].book_id),
                                 Len(wr.hist), 0)]
    /\ UNCHANGED <<redis, wr, dbVars>>
    /\ UNCHANGED nonConcVars

\* lines 224-225: the payload is cached and returned
BookFill(r) ==
    /\ rd[r].pc = "fill"
    /\ redis' = cache_book(redis, rd[r].book_id, JsonDict(rd[r].body))
    /\ rd' = [rd EXCEPT ![r].pc = "done", ![r].inv = wr.inv[rd[r].book_id]]
    /\ UNCHANGED <<wr, dbVars>>
    /\ UNCHANGED nonConcVars

\* update_book lines 432-441: no row ends the request with 404
PatchNotFound(book_id) ==
    /\ wr.pc = "idle"
    /\ wr.n < MaxPatches
    /\ book_id \notin DOMAIN books
    /\ wr' = [wr EXCEPT !.n = @ + 1]
    /\ UNCHANGED <<redis, rd, dbVars>>
    /\ UNCHANGED nonConcVars

\* update_book lines 432-449: the row is loaded, changed and committed
PatchCommit(book_id, update_data) ==
    /\ wr.pc = "idle"
    /\ wr.n < MaxPatches
    /\ book_id \in DOMAIN books
    /\ books' = [books EXCEPT ![book_id] = Patched(@, update_data)]
    /\ wr' = [wr EXCEPT !.pc = "invalidate", !.n = @ + 1, !.book_id = book_id,
                        !.hist = Append(@, [DB EXCEPT !.books = books'])]
    /\ UNCHANGED <<redis, rd, authors, links, reviews, nextBookId, nextAuthorId,
                   nextReviewId>>
    /\ UNCHANGED nonConcVars

\* line 450
PatchInvalidate ==
    /\ wr.pc = "invalidate"
    /\ redis' = invalidate_book(redis, wr.book_id)
    /\ wr' = [wr EXCEPT !.pc = "bump", !.inv[wr.book_id] = @ + 1]
    /\ UNCHANGED <<rd, dbVars>>
    /\ UNCHANGED nonConcVars

\* lines 451-452: the counter is bumped and the handler returns
PatchBump ==
    /\ wr.pc = "bump"
    /\ redis' = bump_cache_version(redis, "books:list").store
    /\ wr' = [wr EXCEPT !.pc = "idle"]
    /\ UNCHANGED <<rd, dbVars>>
    /\ UNCHANGED nonConcVars

\* the store drops a book entry whose TTL has run out
BookExpire(book_id) ==
    /\ make_book_key(book_id) \in DOMAIN redis
    /\ redis[make_book_key(book_id)].ex # PyNone
    /\ redis' = redis_delete(redis, make_book_key(book_id))
    /\ UNCHANGED <<rd, wr, dbVars>>
    /\ UNCHANGED nonConcVars

BookNext ==
    \/ \E r \in Readers, b \in BookIds : BookCacheGet(r, b)
    \/ \E r \in Readers : BookQuery(r)
    \/ \E r \in Readers : BookFill(r)
    \/ \E b \in BookIds : PatchNotFound(b)
    \/ \E b \in BookIds, u \in BookPatches : PatchCommit(b, u)
    \/ PatchInvalidate
    \/ PatchBump
    \/ \E b \in BookIds : BookExpire(b)

SpecBook == BookInit /\ [][BookNext]_vars

\* no request of SpecBook is under way
BookQuiet ==
    /\ wr.pc = "idle"
    /\ \A r \in Readers : rd[r].pc \in {"idle", "done"}

\* the entry of book b holds the book as the relational store has it
EntryIsCurrent(b) ==
    get_book(redis, b).data = BookDetailRead(DB, b)

\* the entry of book b is what reader r read before a later commit and wrote
\* after the last invalidate_book(b), kept for DEFAULT_TTL seconds
EntryIsBoundedStaleFill(b, r) ==
    /\ rd[r].pc = "done"
    /\ rd[r].book_id = b
    /\ rd[r].seen \in 1..(Len(wr.hist) - 1)
    /\ rd[r].inv = wr.inv[b]
    /\ redis[make_book_key(b)] =
          [kind |-> "string", v |-> JsonDict(BookDetailRead(wr.hist[rd[r].seen], b)),
           ex |-> PyInt(DEFAULT_TTL)]

PageBookRows ==
    {[title |-> "t1", year |-> y, fts |-> f, tsim |-> t] :
        y \in {2000, 2001}, f \in {0, 1}, t \in {0, 1}}

\* the sort specifications with by_similarity as primary key, and the default
PageSorts ==
    {<<>>,
     <<[sort_field |-> by_similarity, sort_direction |-> SortDesc]>>,
     <<[sort_field |-> by_similarity, sort_direction |-> SortAsc]>>,
     <<[sort_field |-> by_similarity, sort_direction |-> SortDesc],
       [sort_field |-> by_year, sort_direction |-> SortAsc]>>,
     <<[sort_field |-> by_similarity, sort_direction |-> SortDesc],
       [sort_field |-> by_year, sort_direction |-> SortDesc]>>}

PageInit ==
    /\ books \in [1..MaxPageBooks -> PageBookRows]
    /\ authors = (1 :> [name |-> "n1", nsim |-> 1])
    /\ links \in {{}, {<<1, 1>>}}
    /\ reviews = << >>
    /\ nextBookId = MaxPageBooks + 1
    /\ nextAuthorId = 2
    /\ nextReviewId = 1
    /\ redis = EmptyStore
    /\ \E k \in 1..MaxLimit, sort \in PageSorts :
          pReq = BooksRequest(PyStr("dune"), PyNone, PyNone, PyInt(k), PyNone, PyNone, sort)
    /\ pCursor = PyNone
    /\ pSeen = <<>>
    /\ pState = "start"
    /\ KeyIdle
    /\ VerIdle
    /\ AppIdle
    /\ CurIdle
    /\ FailIdle
    /\ ConcIdle

ItemIds(items) == [i \in 1..Len(items) |-> items[i].id]

PageFetch(req) ==
    \E out \in {get_books_router(redis, DB, req)} :
       /\ out.resp.status = HTTP200
       /\ redis' = out.store
       /\ pSeen' = pSeen \o ItemIds(out.resp.body.items)
       /\ pCursor' = out.resp.body.next_cursor
       /\ pState' = IF out.resp.body.next_cursor = PyNone THEN "done" ELSE "walking"

PageFirst ==
    /\ pState = "start"
    /\ PageFetch(pReq)
    /\ UNCHANGED <<pReq, dbVars>>
    /\ UNCHANGED nonPageVars

PageFollow ==
    /\ pState = "walking"
    /\ PageFetch([pReq EXCEPT !.cursor = pCursor])
    /\ UNCHANGED <<pReq, dbVars>>
    /\ UNCHANGED nonPageVars

\* the client walks the same query again (the pages are now cached)
PageRestart ==
    /\ pState = "done"
    /\ pSeen # <<>>
    /\ pState' = "start"
    /\ pSeen' = <<>>
    /\ pCursor' = PyNone
    /\ UNCHANGED <<redis, pReq, dbVars>>
    /\ UNCHANGED nonPageVars

PageNext ==
    \/ PageFirst
    \/ PageFollow
    \/ PageRestart

SpecPage == PageInit /\ [][PageNext]_vars

\* SpecWalk: the walks of SpecPage, starting from the empty library: the
\* dataset is loaded once and the client picks its query
WalkInit ==
    /\ EmptyDb
    /\ redis = EmptyStore
    /\ PageIdle
    /\ KeyIdle
    /\ VerIdle
    /\ AppIdle
    /\ CurIdle
    /\ FailIdle
    /\ ConcIdle

PageSeed ==
    /\ pState = "idle"
    /\ books' \in [1..MaxPageBooks -> PageBookRows]
    /\ authors' = (1 :> [name |-> "n1", nsim |-> 1])
    /\ links' \in {{}, {<<1, 1>>}}
    /\ nextBookId' = MaxPageBooks + 1
    /\ nextAuthorId' = 2
    /\ \E k \in 1..MaxLimit, sort \in PageSorts :
          pReq' = BooksRequest(PyStr("dune"), PyNone, PyNone, PyInt(k), PyNone, PyNone, sort)
    /\ pState' = "start"
    /\ UNCHANGED <<redis, reviews, nextReviewId, pCursor, pSeen>>
    /\ UNCHANGED nonPageVars

WalkNext ==
    \/ PageSeed
    \/ PageFirst
    \/ PageFollow
    \/ PageRestart

\* ENABLED <<PageFirst>>_vars and ENABLED <<PageFollow>>_vars: the guard of
\* PageFetch, the request is answered with a page
FirstEnabled ==
    pState = "start" /\ get_books_router(redis, DB, pReq).resp.status = HTTP200
FollowEnabled ==
    /\ pState = "walking"
    /\ get_books_router(redis, DB, [pReq EXCEPT !.cursor = pCursor]).resp.status = HTTP200

\* the client sends the first request and every request for a next_cursor it
\* was given, and the server answers each: WF_vars(PageFirst) and
\* WF_vars(PageFollow), with ENABLED written as the guards above
WalkFairness ==
    /\ ([]<>(~FirstEnabled) \/ []<><<PageFirst>>_vars)
    /\ ([]<>(~FollowEnabled) \/ []<><<PageFollow>>_vars)

SpecWalk == WalkInit /\ [][WalkNext]_vars /\ WalkFairness

\* cursor b is strictly later than cursor a in (score descending, id ascending)
CursorLater(a, b) ==
    LET x == decode_cursor(a).data
        y == decode_cursor(b).data
    IN \/ DictGet(y, "score").v < DictGet(x, "score").v
       \/ /\ DictGet(y, "score").v = DictGet(x, "score").v
          /\ DictGet(y, "id").v > DictGet(x, "id").v

\* C39: over a fixed dataset, for every page size and every sort for which a
\* cursor is accepted, each next_cursor a request made with a cursor returns
\* is strictly later than that cursor in (score descending, id ascending)
\* order, and the walk from the first page reaches a response without
\* next_cursor.
C39_WalkTerminates ==
    /\ [][(pState = "walking" /\ pState' = "walking") => CursorLater(pCursor, pCursor')]_vars
    /\ (pState = "start") ~> (pState = "done")

\* a walk of three pages of one row each has ended
C39_Witness ==
    /\ pState = "done"
    /\ pReq.limit.v = 1
    /\ Len(pSeen) = MaxPageBooks
    /\ pCursor = PyNone

\* the single unpaginated ranked query: the same request with a limit that
\* takes every row
Unpaginated == books_query(DB, [pReq EXCEPT !.limit = PyInt(MaxPageBooks + 1)])

\* C3: for every page size and every accepted sort specification with
\* by_similarity as primary key (either direction, with or without secondary
\* keys), the walk from the first page along next_cursor collects every
\* matching row exactly once, in the order of the unpaginated ranked query.
C3_KeysetCompleteness ==
    pState = "done" => pSeen = ItemIds(Unpaginated.body.items)

(***************************************************************************)
(* SpecVer: callers bump and read the version counters concurrently.  A    *)
(* bump is a call, the INCR the store runs atomically, and the return.     *)
(***************************************************************************)
VerInit ==
    /\ redis = EmptyStore
    /\ VerIdle
    /\ KeyIdle
    /\ EmptyDb
    /\ PageIdle
    /\ AppIdle
    /\ CurIdle
    /\ FailIdle
    /\ ConcIdle

Quiescent == \A c \in Callers : pc[c] = "idle"
InFlight(name) == Cardinality({c \in Callers : pc[c] # "idle" /\ cname[c] = name})

BumpCall(c, name) ==
    /\ pc[c] = "idle"
    /\ Len(bumpLog[name]) + InFlight(name) < MaxBumps
    /\ pc' = [pc EXCEPT ![c] = "called"]
    /\ cname' = [cname EXCEPT ![c] = name]
    /\ UNCHANGED <<redis, ret, bumpLog, getPrev, getLast>>
    /\ UNCHANGED nonVerVars

BumpExec(c) ==
    /\ pc[c] = "called"
    /\ LET res == bump_cache_version(redis, cname[c])
       IN /\ redis' = res.store
          /\ ret' = [ret EXCEPT ![c] = res.reply]
          /\ bumpLog' = [bumpLog EXCEPT ![cname[c]] =
                Append(@, [ret |-> res.reply,
                           after |-> ParseInt(redis_get(res.store, VersionKey(cname[c])).v)])]
    /\ pc' = [pc EXCEPT ![c] = "replied"]
    /\ UNCHANGED <<cname, getPrev, getLast>>
    /\ UNCHANGED nonVerVars

BumpReturn(c) ==
    /\ pc[c] = "replied"
    /\ pc' = [pc EXCEPT ![c] = "idle"]
    /\ UNCHANGED <<redis, cname, ret, bumpLog, getPrev, getLast>>
    /\ UNCHANGED nonVerVars

GetVersion(name) ==
    /\ getLast' = [name |-> name,
                   value |-> get_cache_version(redis, name),
                   nbumps |-> Len(bumpLog[name]),
                   quiescent |-> Quiescent]
    /\ getPrev' = getLast
    /\ getLast' # getLast
    /\ UNCHANGED <<redis, pc, cname, ret, bumpLog>>
    /\ UNCHANGED nonVerVars

VerNext ==
    \/ \E c \in Callers, name \in VersionNames : BumpCall(c, name)
    \/ \E c \in Callers : BumpExec(c)
    \/ \E c \in Callers : BumpReturn(c)
    \/ \E name \in VersionNames : GetVersion(name)

SpecVer == VerInit /\ [][VerNext]_vars

\* C4: successive bumps of one counter return a strictly increasing sequence,
\* and each returned value is the counter's value after that increment.
C4_BumpStrictlyIncreasing ==
    \A name \in VersionNames :
        /\ \A i \in 1..Len(bumpLog[name]) : bumpLog[name][i].ret = bumpLog[name][i].after
        /\ \A i, j \in 1..Len(bumpLog[name]) :
              i < j => bumpLog[name][i].ret < bumpLog[name][j].ret

\* a counter bumped MaxBumps times, by both callers
C4_Witness ==
    /\ Len(bumpLog["books:list"]) >= 3
    /\ \A c \in Callers : ret[c] > 0 /\ cname[c] = "books:list"

\* the list key built for the parameters of GET /books?limit=20 on store
ListKeyOn(store, name) ==
    make_list_key_with_payload(name, <<<<"limit", PyInt(DefaultLimit)>>>>,
                               get_cache_version(store, name)).key

\* C33: whatever the store holds, the unset counter included, when the store
\* runs the INCR of a bump of name, get_cache_version(name) reports more after
\* it than it reported before it, and the list key built for the same
\* parameters before the bump differs from the one built after it.
C33_BumpRaisesReportedVersion ==
    [][\A name \in VersionNames :
          Len(bumpLog'[name]) = Len(bumpLog[name]) + 1
             => /\ get_cache_version(redis', name) > get_cache_version(redis, name)
                /\ ListKeyOn(redis', name) # ListKeyOn(redis, name)]_vars

\* C5: when N >= 1 bumps of a counter run between two quiescent reads of it,
\* the second read reports exactly N more than the first, also when the
\* counter was unset at the first read.
C5_NoLostUpdates ==
    (/\ getPrev # NoGet
     /\ getLast # NoGet
     /\ getPrev.name = getLast.name
     /\ getPrev.quiescent
     /\ getLast.quiescent
     /\ getLast.nbumps > getPrev.nbumps)
    => getLast.value = getPrev.value + (getLast.nbumps - getPrev.nbumps)

\* C6: get returns 1 for a counter that was never bumped and otherwise the
\* integer the last bump stored (and returned).
C6_GetDefaultOrLastBump ==
    getLast # NoGet =>
        getLast.value = IF getLast.nbumps = 0 THEN 1
                        ELSE bumpLog[getLast.name][getLast.nbumps].ret

\* a read of a never bumped counter followed by a read of it after two bumps
C6_Witness ==
    /\ getPrev # NoGet
    /\ getLast # NoGet
    /\ getPrev.name = getLast.name
    /\ getPrev.nbumps = 0
    /\ getPrev.value = 1
    /\ getLast.nbumps = 2
    /\ getLast.value = 2

(***************************************************************************)
(* SpecKey: the key builder applied to dicts that are rearranged between   *)
(* builds.                                                                 *)
(***************************************************************************)
KeyParamNames == {"q", "title", "isbn"}
KeyParamValues == {PyNone, PyStr("a")}
KeyPrefixes == {"books:list", "authors:list"}

Dicts(names, values) ==
    {d \in UNION {[1..n -> names \X values] : n \in 0..Cardinality(names)} :
        \A i, j \in 1..Len(d) : i # j => d[i][1] # d[j][1]}

NonNullItems(d) == {p \in DictItems(d) : p[2] # PyNone}

KeyInit ==
    /\ kParams \in Dicts(KeyParamNames, KeyParamValues)
    /\ kPrefix \in KeyPrefixes
    /\ kVersion = 1
    /\ kPrev = NoBuild
    /\ kLast = NoBuild
    /\ redis = EmptyStore
    /\ VerIdle
    /\ EmptyDb
    /\ PageIdle
    /\ AppIdle
    /\ CurIdle
    /\ FailIdle
    /\ ConcIdle

\* the caller lists the same arguments in another order
KeyPermute ==
    /\ \E i \in 1..(Len(kParams) - 1) :
          kParams' = [kParams EXCEPT ![i] = kParams[i + 1], ![i + 1] = kParams[i]]
    /\ UNCHANGED <<kPrefix, kVersion, kPrev, kLast>>
    /\ UNCHANGED nonKeyVars

\* the caller passes an explicit None for a parameter it had omitted
KeyInsertNull ==
    /\ \E k \in KeyParamNames \ DictKeys(kParams) :
          kParams' = Append(kParams, <<k, PyNone>>)
    /\ UNCHANGED <<kPrefix, kVersion, kPrev, kLast>>
    /\ UNCHANGED nonKeyVars

\* the caller omits a parameter it had passed as None
KeyOmitNull ==
    /\ \E i \in 1..Len(kParams) :
          /\ kParams[i][2] = PyNone
          /\ kParams' = SubSeq(kParams, 1, i - 1) \o SubSeq(kParams, i + 1, Len(kParams))
    /\ UNCHANGED <<kPrefix, kVersion, kPrev, kLast>>
    /\ UNCHANGED nonKeyVars

\* the caller normalizes the already cleaned mapping again
KeyReclean ==
    /\ kParams' = normalize_params(kParams).clean
    /\ kParams' # kParams
    /\ UNCHANGED <<kPrefix, kVersion, kPrev, kLast>>
    /\ UNCHANGED nonKeyVars

KeySetVersion ==
    /\ \E v \in 1..MaxKeyVersion : v # kVersion /\ kVersion' = v
    /\ UNCHANGED <<kParams, kPrefix, kPrev, kLast>>
    /\ UNCHANGED nonKeyVars

KeyBuild ==
    /\ kLast' = [prefix |-> kPrefix,
                 version |-> kVersion,
                 params |-> kParams,
                 items |-> NonNullItems(kParams),
                 key |-> make_list_key_with_payload(kPrefix, kParams, kVersion).key,
                 payload |-> make_list_key_with_payload(kPrefix, kParams, kVersion).payload]
    /\ kPrev' = kLast
    /\ kLast' # kLast
    /\ UNCHANGED <<kParams, kPrefix, kVersion>>
    /\ UNCHANGED nonKeyVars

KeyNext ==
    \/ KeyPermute
    \/ KeyInsertNull
    \/ KeyOmitNull
    \/ KeyReclean
    \/ KeySetVersion
    \/ KeyBuild

SpecKey == KeyInit /\ [][KeyNext]_vars

BothBuilt == kPrev # NoBuild /\ kLast # NoBuild

\* C9: the serialization produced by normalize_params depends only on the set
\* of (name, value) pairs whose value is not None: two builds whose dicts have
\* the same non-null items (permuted, with explicit None entries, or cleaned
\* again) carry the identical payload string.
C9_PayloadDependsOnNonNullItems ==
    (BothBuilt /\ kPrev.items = kLast.items) => kPrev.payload = kLast.payload

\* two builds from dicts that differ in order and in explicit None entries but
\* have the same non-empty set of non-null items
C9_Witness ==
    /\ BothBuilt
    /\ kPrev.items = kLast.items
    /\ Cardinality(kLast.items) >= 2
    /\ kPrev.params # kLast.params
    /\ Len(kPrev.params) # Len(kLast.params)
    /\ \E i, j \in 1..Len(kLast.params) :
          /\ i < j
          /\ kLast.params[i][2] # PyNone
          /\ kLast.params[j][2] # PyNone
          /\ KeyRank(kLast.params[i][1]) > KeyRank(kLast.params[j][1])

\* C10: equal normalized parameters and equal version give the same key, and
\* for the same prefix and parameters the key built with version V differs
\* from the key built with any other version.
C10_KeyDeterminism ==
    (BothBuilt /\ kPrev.prefix = kLast.prefix /\ kPrev.items = kLast.items) =>
        /\ (kPrev.version = kLast.version => kPrev.key = kLast.key)
        /\ (kPrev.version # kLast.version => kPrev.key # kLast.key)

\* the same logical query built under two versions, from differently arranged dicts
C10_Witness ==
    /\ BothBuilt
    /\ kPrev.prefix = kLast.prefix
    /\ kPrev.items = kLast.items
    /\ kPrev.params # kLast.params
    /\ kPrev.version # kLast.version
    /\ kPrev.key # kLast.key

(***************************************************************************)
(* SpecCursor: a client holds the encoding of a JSON document, changes it  *)
(* or not, and hands it to decode_cursor (src/helpers.py 13-21).           *)
(***************************************************************************)
\* the number of changes a client makes to a token
MaxCursorEdits == 1

CursorIds == {PyInt(1), PyInt(2)}
CursorScores == {PyFloat(40), PyInt(40)}

\* the payloads the round trip is about: an id and a numeric score, in either
\* key order
CursorPayloads ==
    {<<<<"id", i>>, <<"score", sc>>>> : i \in CursorIds, sc \in CursorScores}
    \cup {<<<<"score", sc>>, <<"id", i>>>> : i \in {PyInt(1)}, sc \in CursorScores}

IsCursorPayload(doc) ==
    /\ doc.t = "dict"
    /\ DictKeys(doc.v) = {"id", "score"}
    /\ Len(doc.v) = 2
    /\ DictGet(doc.v, "id").t = "int"
    /\ IsNumber(DictGet(doc.v, "score"))

\* JSON documents that are no cursor payload
OtherDocs ==
    {PyList(<<PyInt(1)>>), PyInt(1), PyStr("s"), PyNone, PyDict(<<>>),
     PyDict(<<<<"id", PyInt(1)>>>>), PyDict(<<<<"score", PyFloat(40)>>>>),
     PyDict(<<<<"id", PyInt(1)>>, <<"score", PyStr("x")>>>>),
     PyDict(<<<<"id", PyInt(1)>>, <<"score", PyNone>>>>),
     PyDict(<<<<"id", PyInt(1)>>, <<"score", PyDict(<<>>)>>>>),
     PyDict(<<<<"id", PyStr("a")>>, <<"score", PyFloat(40)>>>>)}

CursorDocs == {PyDict(d) : d \in CursorPayloads} \cup OtherDocs

\* the characters a client puts into a token
EditChars ==
    {JunkChar, NonAsciiChar, B64Char(BadBytes), B64Char(Word),
     B64Char(Lit(PyStr("x"))), B64Char(Punct("["))}

CurInit ==
    /\ cDoc \in CursorDocs
    /\ cToken = IF cDoc.t = "dict" THEN encode_cursor(cDoc.v)
                ELSE PyToken(urlsafe_b64encode(json_lexemes(cDoc)))
    /\ cEdits = 0
    /\ cResult = NoResult
    /\ EmptyDb
    /\ redis = EmptyStore
    /\ KeyIdle
    /\ VerIdle
    /\ PageIdle
    /\ AppIdle
    /\ FailIdle
    /\ ConcIdle

Edited(chars, padded) ==
    /\ cEdits < MaxCursorEdits
    /\ cResult = NoResult
    /\ cToken' = PyToken(Token(chars, padded))
    /\ cEdits' = cEdits + 1
    /\ UNCHANGED <<cDoc, cResult>>
    /\ UNCHANGED nonCurVars

CurDrop ==
    \E i \in 1..Len(cToken.tok.chars) :
       Edited(SubSeq(cToken.tok.chars, 1, i - 1)
              \o SubSeq(cToken.tok.chars, i + 1, Len(cToken.tok.chars)),
              cToken.tok.padded)

CurReplace ==
    \E i \in 1..Len(cToken.tok.chars), ch \in EditChars :
       Edited([cToken.tok.chars EXCEPT ![i] = ch], cToken.tok.padded)

CurInsert ==
    \E i \in 0..Len(cToken.tok.chars), ch \in EditChars :
       Edited(SubSeq(cToken.tok.chars, 1, i) \o <<ch>>
              \o SubSeq(cToken.tok.chars, i + 1, Len(cToken.tok.chars)),
              cToken.tok.padded)

\* the client cuts the token short inside a group of four characters
CurTruncate ==
    /\ cToken.tok.padded
    /\ Len(cToken.tok.chars) > 0
    /\ Edited(cToken.tok.chars, FALSE)

CurDecode ==
    /\ cResult = NoResult
    /\ cResult' = decode_cursor(cToken)
    /\ UNCHANGED <<cDoc, cToken, cEdits>>
    /\ UNCHANGED nonCurVars

CurNext == CurDrop \/ CurReplace \/ CurInsert \/ CurTruncate \/ CurDecode

SpecCursor == CurInit /\ [][CurNext]_vars

\* Python's == on two JSON values of the cursor: 1 == 1.0, and dicts are
\* equal when they have the same keys with equal values, in any order
ValueEq(a, b) ==
    \/ IsNumber(a) /\ IsNumber(b) /\ a.v = b.v
    \/ a.t = b.t /\ a.t \in {"str", "none"} /\ a = b
DictEq(d, e) ==
    /\ DictKeys(d) = DictKeys(e)
    /\ \A k \in DictKeys(d) : ValueEq(DictGet(d, k), DictGet(e, k))

\* C11: for every payload x made of an id and a numeric score,
\* decode_cursor(encode_cursor(x)) returns a dict equal to x.
C11_CursorRoundTrip ==
    (cEdits = 0 /\ cResult # NoResult /\ IsCursorPayload(cDoc))
        => (cResult.ok /\ DictEq(cResult.data, cDoc.v))

C11_Witness ==
    /\ cEdits = 0
    /\ IsCursorPayload(cDoc)
    /\ cDoc.v[1][1] = "score"
    /\ DictGet(cDoc.v, "score").t = "float"
    /\ cResult # NoResult
    /\ cResult.ok
    /\ cResult.data = cDoc.v

\* the same items inserted in the opposite order
Swapped(d) == <<d[2], d[1]>>

\* C32: the token encode_cursor gives for an {id, score} payload is the token
\* it gives for the payload holding the same two items inserted in the other
\* order.
C32_TokenIgnoresInsertionOrder ==
    (cEdits = 0 /\ IsCursorPayload(cDoc)) => cToken = encode_cursor(Swapped(cDoc.v))

\* what the token is, told from its characters alone
ValidBase64(tok) ==
    /\ tok.padded
    /\ \A i \in 1..Len(tok.chars) : tok.chars[i].c = "b64"
TokenBytes(tok) == [i \in 1..Len(tok.chars) |-> tok.chars[i].lx]
ValidJson(tok) ==
    /\ \A i \in 1..Len(tok.chars) : tok.chars[i].lx.k # "bad"
    /\ json_loads(TokenBytes(tok)).ok
JsonOf(tok) == json_loads(TokenBytes(tok)).v

\* C12: decode_cursor on a token that is not valid base64, or whose bytes
\* are not valid JSON, or whose JSON is not an object, or whose object lacks
\* id or score, fails with HTTP 400 and with nothing else.
C12_BadCursorIs400 ==
    (/\ cResult # NoResult
     /\ \/ ~ValidBase64(cToken.tok)
        \/ ~ValidJson(cToken.tok)
        \/ JsonOf(cToken.tok).t # "dict"
        \/ ~({"id", "score"} \subseteq DictKeys(JsonOf(cToken.tok).v)))
        => (~cResult.ok /\ cResult.status = HTTP400)

\* C13: decode_cursor returns a dict only if its score is numeric.
C13_AcceptsOnlyNumericScore ==
    (cResult # NoResult /\ cResult.ok) => IsNumber(DictGet(cResult.data, "score"))

(***************************************************************************)
(* SpecReq: GET /books and GET /authors served one request at a time over  *)
(* a fixed library, with every combination of q, sort, limit, offset and   *)
(* cursor; the cache holds what the earlier requests filled.               *)
(***************************************************************************)
\* the number of requests in a behaviour, and the number of books
MaxRequests == 2
ReqBookCount == 3

ReqBookRows ==
    {[title |-> "t1", year |-> 2000, fts |-> 1, tsim |-> 0],
     [title |-> "t2", year |-> 2001, fts |-> 0, tsim |-> 1]}

\* two books that tie on every sort key, and a last one that differs
ReqLibraries ==
    {f \in [1..ReqBookCount -> ReqBookRows] : f[1] = f[2] /\ f[ReqBookCount] # f[1]}

ReqSorts ==
    {<<>>,
     <<[sort_field |-> by_similarity, sort_direction |-> SortDesc]>>,
     <<[sort_field |-> by_title, sort_direction |-> SortDesc]>>,
     <<[sort_field |-> by_year, sort_direction |-> SortAsc],
       [sort_field |-> by_similarity, sort_direction |-> SortAsc]>>}

\* the cursor strings a client sends: none, the empty string, a token the
\* handler gave out, a token with a string score, a non-ASCII string
ReqCursors ==
    {PyNone,
     PyToken(Token(<<>>, TRUE)),
     encode_cursor(CursorPayload(1, 60)),
     encode_cursor(<<<<"id", PyInt(1)>>, <<"score", PyStr("x")>>>>),
     PyToken(Token(<<NonAsciiChar>>, TRUE))}

ReqBooksRequests ==
    {BooksRequest(q, PyNone, PyNone, PyInt(k), offset, cursor, sort) :
        q \in {PyNone, PyStr(""), PyStr("dune")},
        k \in 1..MaxLimit,
        offset \in {PyNone, PyInt(0), PyInt(1)},
        cursor \in ReqCursors,
        sort \in ReqSorts}

ReqAuthorsRequests ==
    {AuthorsRequest(q, PyNone, PyInt(k), PyInt(offset)) :
        q \in {PyNone, PyStr("herbert")}, k \in 1..MaxLimit, offset \in {0, 1}}

ReqInit ==
    /\ books \in ReqLibraries
    /\ authors = (1 :> [name |-> "n1", nsim |-> 1]) @@ (2 :> [name |-> "n2", nsim |-> 1])
                 @@ (3 :> [name |-> "n1", nsim |-> 0])
    /\ links = {<<1, ReqBookCount>>}
    /\ reviews = << >>
    /\ nextBookId = ReqBookCount + 1
    /\ nextAuthorId = 4
    /\ nextReviewId = 1
    /\ redis = EmptyStore
    /\ AppIdle
    /\ CurIdle
    /\ FailIdle
    /\ KeyIdle
    /\ VerIdle
    /\ PageIdle
    /\ ConcIdle

\* the request served last, and what it was answered
ReqAnswer(handler, out) ==
    [handler |-> handler, status |-> out.resp.status, source |-> out.source,
     body |-> IF out.resp.status = HTTP200 THEN Some(out.resp.body) ELSE PyNone]

ReqServed(req, handler, out) ==
    /\ ops' = ops + 1
    /\ redis' = out.store
    /\ pReq' = req
    /\ resp' = ReqAnswer(handler, out)
    /\ UNCHANGED <<fillAge, pCursor, pSeen, pState, dbVars, keyVars, bumpLog, verVars,
                   concVars, curVars, failVars, mLast>>

ReqGetBooks ==
    /\ ops < MaxRequests
    /\ \E req \in ReqBooksRequests :
          \E out \in {get_books_router(redis, DB, req)} :
             ReqServed(req, "get_books_router", out)

ReqGetAuthors ==
    /\ ops < MaxRequests
    /\ \E req \in ReqAuthorsRequests :
          \E out \in {get_authors_router(redis, DB, req)} :
             ReqServed(req, "get_authors_router", out)

ReqNext == ReqGetBooks \/ ReqGetAuthors

SpecReq == ReqInit /\ [][ReqNext]_vars

BooksAnswered == Answered /\ resp.handler = "get_books_router"
BooksPageReturned == BooksAnswered /\ resp.status = HTTP200

\* C14: a GET /books request that supplies both a cursor and an offset is
\* answered with HTTP 400 and never with a page, whatever the cache holds and
\* whatever the other parameters are.
C14_CursorWithOffsetIs400 ==
    (BooksAnswered /\ pReq.cursor # PyNone /\ pReq.offset # PyNone)
        => resp.status = HTTP400

\* the second of two such requests, with q and a by_similarity sort so that
\* only the cursor/offset check can reject it
C14_Witness ==
    /\ BooksAnswered
    /\ ops = MaxRequests
    /\ Truthy(pReq.q)
    /\ pReq.cursor = encode_cursor(CursorPayload(1, 60))
    /\ pReq.offset = PyInt(0)
    /\ DOMAIN redis # {}
    /\ resp.status = HTTP400

HasSimilarityKey(sort) == \E i \in 1..Len(sort) : sort[i].sort_field = by_similarity

\* C15: a GET /books request whose sort holds the by_similarity key at any
\* position while q is absent or empty is answered with HTTP 400, never with
\* a page in some other order.
C15_SimilarityNeedsQ ==
    (BooksAnswered /\ ~Truthy(pReq.q) /\ HasSimilarityKey(pReq.sort))
        => resp.status = HTTP400

\* by_similarity as the second key, q the empty string, the key's cache warm
C15_Witness ==
    /\ BooksAnswered
    /\ ops = MaxRequests
    /\ pReq.q = PyStr("")
    /\ Len(pReq.sort) = 2
    /\ pReq.sort[1].sort_field = by_year
    /\ pReq.sort[2].sort_field = by_similarity
    /\ pReq.cursor = PyNone
    /\ DOMAIN redis # {}
    /\ resp.status = HTTP400

PrimaryBySimilarity(req) ==
    Len(EffectiveSort(req)) > 0 /\ EffectiveSort(req)[1].sort_field = by_similarity

\* C16: a GET /books request that supplies a cursor while the primary sort
\* key is not by_similarity (no sort and no q included) is answered with
\* HTTP 400.
C16_CursorNeedsSimilaritySort ==
    (BooksAnswered /\ pReq.cursor # PyNone /\ ~PrimaryBySimilarity(pReq))
        => resp.status = HTTP400

\* the row of a returned item, with the score the statement computes for it
ItemRow(req, item) ==
    [id |-> item.id, title |-> item.title, year |-> item.year,
     total |-> IF Truthy(req.q) THEN TotalScore(DB, item.id) ELSE 0]

\* C17: a GET /books request with a non-null cursor is answered either with
\* HTTP 400 or with a page on which the keyset predicate decoded from that
\* cursor holds of every item; the cursor is never ignored and the request
\* never ends as a server fault.
C17_CursorAppliedOrRejected ==
    (BooksAnswered /\ pReq.cursor # PyNone)
        => \/ resp.status = HTTP400
           \/ /\ resp.status = HTTP200
              /\ decode_cursor(pReq.cursor).ok
              /\ \A i \in 1..Len(resp.body.v.items) :
                    Keyset(ItemRow(pReq, resp.body.v.items[i]),
                           decode_cursor(pReq.cursor).data, EffectiveSort(pReq))

\* the number of rows the statement has at the requested position: the
\* matching rows the keyset predicate keeps, less the offset
RowsAtPosition(req) ==
    LET kept == {b \in MatchingBooks(DB, req) :
                    (Truthy(req.cursor) /\ PrimaryBySimilarity(req))
                        => Keyset(BookRow(DB, req, b), decode_cursor(req.cursor).data,
                                  EffectiveSort(req))}
        skip == IF req.offset # PyNone /\ req.cursor = PyNone THEN req.offset.v ELSE 0
    IN IF Cardinality(kept) > skip THEN Cardinality(kept) - skip ELSE 0

LastItem(body) == body.items[Len(body.items)]

\* a non-null next_cursor decodes to the id and total_score of the last item
EncodesLastItem(req, body) ==
    /\ Len(body.items) > 0
    /\ decode_cursor(body.next_cursor).ok
    /\ DictEq(decode_cursor(body.next_cursor).data,
              CursorPayload(LastItem(body).id, ItemRow(req, LastItem(body)).total))

\* C18 as stated: a successful GET /books holds at most limit items,
\* next_cursor is non-null exactly when the statement has more than limit
\* rows at the requested position, and a non-null next_cursor encodes the id
\* and total_score of the last item.
C18_NextCursorIffMoreRows ==
    BooksPageReturned
        => /\ Len(resp.body.v.items) <= pReq.limit.v
           /\ (resp.body.v.next_cursor # PyNone) <=> (RowsAtPosition(pReq) > pReq.limit.v)
           /\ (resp.body.v.next_cursor # PyNone) => EncodesLastItem(pReq, resp.body.v)

\* C18 amended: a successful GET /books holds at most limit items,
\* next_cursor is non-null exactly when the primary sort key is by_similarity
\* and the statement has more than limit rows at the requested position, and
\* a non-null next_cursor encodes the id and total_score of the last item.
C18_NextCursorIffMoreRankedRows ==
    BooksPageReturned
        => /\ Len(resp.body.v.items) <= pReq.limit.v
           /\ (resp.body.v.next_cursor # PyNone)
                 <=> (PrimaryBySimilarity(pReq) /\ RowsAtPosition(pReq) > pReq.limit.v)
           /\ (resp.body.v.next_cursor # PyNone) => EncodesLastItem(pReq, resp.body.v)

\* a full ranked page with rows left, served with its cursor
C18_Witness ==
    /\ BooksPageReturned
    /\ PrimaryBySimilarity(pReq)
    /\ RowsAtPosition(pReq) > pReq.limit.v
    /\ Len(resp.body.v.items) = pReq.limit.v
    /\ resp.body.v.next_cursor # PyNone
    /\ EncodesLastItem(pReq, resp.body.v)

\* the sort keys of a list request: the requested keys for books, the score
\* (when q is given) for authors
AuthorsSort(req) ==
    IF Truthy(req.q) THEN <<[sort_field |-> by_similarity, sort_direction |-> SortDesc]>>
    ELSE <<>>
AuthorItemRow(req, item) ==
    [id |-> item.id, total |-> IF Truthy(req.q) THEN 70 * authors[item.id].nsim ELSE 0]

\* x comes strictly before y: at the first sort key on which they differ x is
\* on the requested side, and on no difference x has the smaller id
StrictlyBefore(x, y, sort) ==
    \E k \in 1..(Len(sort) + 1) :
       /\ \A m \in 1..(k - 1) : SortColumn(x, sort[m]) = SortColumn(y, sort[m])
       /\ IF k <= Len(sort)
          THEN IF sort[k].sort_direction = SortAsc
               THEN SortColumn(x, sort[k]) < SortColumn(y, sort[k])
               ELSE SortColumn(x, sort[k]) > SortColumn(y, sort[k])
          ELSE x.id < y.id

ListStrictlyOrdered ==
    /\ BooksPageReturned
          => \A i, j \in 1..Len(resp.body.v.items) :
                i < j => StrictlyBefore(ItemRow(pReq, resp.body.v.items[i]),
                                        ItemRow(pReq, resp.body.v.items[j]),
                                        EffectiveSort(pReq))
    /\ (Answered /\ resp.handler = "get_authors_router")
          => \A i, j \in 1..Len(resp.body.v) :
                i < j => StrictlyBefore(AuthorItemRow(pReq, resp.body.v[i]),
                                        AuthorItemRow(pReq, resp.body.v[j]),
                                        AuthorsSort(pReq))

\* the request just served again, the relational state being the same
SameRequestAgain ==
    /\ Answered
    /\ resp.status = HTTP200
    /\ ops' = ops + 1
    /\ pReq' = pReq

\* C19: every books or authors list is ordered by the requested sort keys
\* with ties broken by ascending id, which is a strict total order: no row
\* is on a page twice, and the same request against the same relational
\* state is answered with the same sequence.
C19_StableTotalOrder ==
    /\ []ListStrictlyOrdered
    /\ [][SameRequestAgain => resp'.body = resp.body]_vars

\* two books that tie on the requested key, in id order, from the cache
C19_Witness ==
    /\ BooksPageReturned
    /\ ops = MaxRequests
    /\ resp.source = "cache"
    /\ Len(pReq.sort) = 1
    /\ pReq.sort[1].sort_field = by_title
    /\ Len(resp.body.v.items) = 2
    /\ resp.body.v.items[1].title = resp.body.v.items[2].title
    /\ resp.body.v.items[1].id < resp.body.v.items[2].id

(***************************************************************************)
(* SpecFail: requests served one at a time, each handler step by step      *)
(* (load and validate, db.commit(), then one cache command at a time),     *)
(* while the key-value store goes down and comes back.  A command sent to  *)
(* an unreachable store raises ConnectionError in the client; db.commit()  *)
(* can raise.  No handler and no function of cache.py has a try/except,    *)
(* so whatever is raised ends the request as HTTP 500.                     *)
(***************************************************************************)
\* the number of requests in a behaviour of SpecFail
MaxFailRequests == 2

DbState ==
    [books |-> books, authors |-> authors, links |-> links, reviews |-> reviews,
     nextBookId |-> nextBookId, nextAuthorId |-> nextAuthorId, nextReviewId |-> nextReviewId]

SetDb(S) ==
    /\ books' = S.books
    /\ authors' = S.authors
    /\ links' = S.links
    /\ reviews' = S.reviews
    /\ nextBookId' = S.nextBookId
    /\ nextAuthorId' = S.nextAuthorId
    /\ nextReviewId' = S.nextReviewId

\* a mutation request: the handler, the path id, the title / name / reviewer
\* of the body and its author_ids / book_ids
Mutation(handler, id, text, ids) ==
    [handler |-> handler, id |-> id, text |-> text, ids |-> ids]

FailMutations ==
    {Mutation("create_book", 0, "t2", A) : A \in {{}, {1}, {2}}}
    \cup {Mutation("create_review", 1, n, {}) : n \in {"r1", "r2"}}
    \cup {Mutation("replace_book", b, "t2", A) : b \in BookIds, A \in {{}, {1}}}
    \cup {Mutation("update_author_list", 1, "", A) : A \in {{}, {1}}}
    \cup {Mutation("update_book", 1, "t2", {})}
    \cup {Mutation("delete_book", 1, "", {})}
    \cup {Mutation("delete_review", r, "", {}) : r \in ReviewIds}
    \cup {Mutation("create_author", 0, "n2", B) : B \in {{}, {1}}}
    \cup {Mutation("replace_author", 1, "n2", B) : B \in {{}, {1}, {2}}}
    \cup {Mutation("update_author", 1, "n2", B) : B \in {PyNone, [t |-> "list", v |-> {}]}}
    \cup {Mutation("del_author", a, "", {}) : a \in AuthorIds}

\* the book_ids of the body; PATCH /authors/{id} may leave them out (None)
GivenIds(m) ==
    IF m.handler # "update_author" THEN m.ids
    ELSE IF m.ids = PyNone THEN {} ELSE m.ids.v

\* the HTTPException a handler raises before it changes a row, or None
Refusal(S, m) ==
    CASE m.handler = "create_book" ->
            IF m.ids # {} /\ ~(m.ids \subseteq DOMAIN S.authors) THEN PyInt(HTTP400) ELSE PyNone
      [] m.handler = "create_review" ->
            IF m.id \notin DOMAIN S.books THEN PyInt(HTTP404)
            ELSE IF \E r \in BookReviews(S, m.id) : S.reviews[r].reviewer_name = m.text
            THEN PyInt(HTTP400) ELSE PyNone
      [] m.handler \in {"replace_book", "update_author_list"} ->
            IF m.id \notin DOMAIN S.books THEN PyInt(HTTP404)
            ELSE IF m.ids # {} /\ ~(m.ids \subseteq DOMAIN S.authors) THEN PyInt(HTTP400)
            ELSE PyNone
      [] m.handler \in {"update_book", "delete_book"} ->
            IF m.id \notin DOMAIN S.books THEN PyInt(HTTP404) ELSE PyNone
      [] m.handler = "delete_review" ->
            IF m.id \notin DOMAIN S.reviews THEN PyInt(HTTP404) ELSE PyNone
      [] m.handler = "create_author" ->
            IF m.ids # {} /\ ~(m.ids \subseteq DOMAIN S.books) THEN PyInt(HTTP400) ELSE PyNone
      [] m.handler = "replace_author" ->
            IF m.id \notin DOMAIN S.authors THEN PyInt(HTTP404)
            ELSE IF m.ids # {} /\ ~(m.ids \subseteq DOMAIN S.books) THEN PyInt(HTTP400)
            ELSE PyNone
      [] m.handler = "update_author" ->
            IF m.id \notin DOMAIN S.authors THEN PyInt(HTTP404)
            ELSE IF GivenIds(m) # {} /\ ~(GivenIds(m) \subseteq DOMAIN S.books)
            THEN PyInt(HTTP400) ELSE PyNone
      [] m.handler = "del_author" ->
            IF m.id \notin DOMAIN S.authors THEN PyInt(HTTP404) ELSE PyNone

\* the relational state once the handler's db.commit() has succeeded
Change(S, m) ==
    CASE m.handler = "create_book" ->
            [S EXCEPT !.books = (S.nextBookId :> NewBook(m.text)) @@ @,
                      !.links = @ \cup {<<a, S.nextBookId>> : a \in m.ids},
                      !.nextBookId = @ + 1]
      [] m.handler = "create_review" ->
            [S EXCEPT !.reviews = (S.nextReviewId :> NewReview(m.id, m.text)) @@ @,
                      !.nextReviewId = @ + 1]
      [] m.handler = "replace_book" ->
            [S EXCEPT !.books[m.id] = NewBook(m.text),
                      !.links = {l \in @ : l[2] # m.id} \cup {<<a, m.id>> : a \in m.ids}]
      [] m.handler = "update_author_list" ->
            [S EXCEPT !.links = {l \in @ : l[2] # m.id} \cup {<<a, m.id>> : a \in m.ids}]
      [] m.handler = "update_book" ->
            [S EXCEPT !.books[m.id] = Patched(@, [title |-> m.text])]
      [] m.handler = "delete_book" ->
            [S EXCEPT !.books = Restrict(@, DOMAIN @ \ {m.id}),
                      !.links = {l \in @ : l[2] # m.id},
                      !.reviews = Restrict(@, DOMAIN @ \ BookReviews(S, m.id))]
      [] m.handler = "delete_review" ->
            [S EXCEPT !.reviews = Restrict(@, DOMAIN @ \ {m.id})]
      [] m.handler = "create_author" ->
            [S EXCEPT !.authors = (S.nextAuthorId :> NewAuthor(m.text)) @@ @,
                      !.links = @ \cup {<<S.nextAuthorId, b>> : b \in m.ids},
                      !.nextAuthorId = @ + 1]
      [] m.handler = "replace_author" ->
            [S EXCEPT !.authors[m.id].name = m.text,
                      !.links = {l \in @ : l[1] # m.id} \cup {<<m.id, b>> : b \in m.ids}]
      [] m.handler = "update_author" ->
            [S EXCEPT !.authors[m.id].name = m.text,
                      !.links = IF m.ids = PyNone THEN @
                                ELSE {l \in @ : l[1] # m.id} \cup {<<m.id, b>> : b \in m.ids.v}]
      [] m.handler = "del_author" ->
            [S EXCEPT !.authors = Restrict(@, DOMAIN @ \ {m.id}),
                      !.links = {l \in @ : l[1] # m.id}]

\* the status of the handler's normal return
SuccessStatus(m) ==
    IF m.handler \in {"delete_book", "delete_review", "del_author"} THEN HTTP204 ELSE HTTP200

\* One step of a handler after its validation: db.commit(), a command of
\* invalidate_book / invalidate_author, or a call of bump_cache_version.
COMMIT == [cmd |-> "commit"]
DEL(key) == [cmd |-> "DEL", key |-> key]
SMEMBERS(key) == [cmd |-> "SMEMBERS", key |-> key]
BUMP(name) == [cmd |-> "bump_cache_version", name |-> name]

RECURSIVE Concat(_)
Concat(seqs) == IF seqs = <<>> THEN <<>> ELSE Head(seqs) \o Concat(Tail(seqs))

\* invalidate_book: the three deletes, one by one
invalidate_book_steps(book_id) ==
    <<DEL(make_book_key(book_id)), DEL(make_reviews_key(book_id)),
      DEL("book:" \o ToString(book_id) \o ":authors")>>

\* invalidate_author lines 218-224: per related book its key and its reviews key
related_steps(book_ids) ==
    Concat([i \in 1..Cardinality(book_ids) |->
              <<DEL(make_book_key(SortedIds(book_ids)[i])),
                DEL(make_reviews_key(SortedIds(book_ids)[i]))>>])

\* invalidate_author: the author key, the related books (asked of the store
\* when book_ids is empty), the membership key last
invalidate_author_steps(author_id, book_ids) ==
    <<DEL(make_author_key(author_id))>>
    \o (IF book_ids = {} THEN <<SMEMBERS(make_author_books_key(author_id))>>
        ELSE related_steps(book_ids))
    \o <<DEL(make_author_books_key(author_id))>>

\* for aid in author_ids: await invalidate_author(aid, r, book_ids=[book_id])
invalidate_each_steps(author_ids, book_id) ==
    Concat([i \in 1..Cardinality(author_ids) |->
              invalidate_author_steps(SortedIds(author_ids)[i], {book_id})])

\* what the handler does to the cache, in the order of its statements; S is
\* the relational state the handler loaded
CacheSteps(S, m) ==
    CASE m.handler = "create_book" ->
            <<BUMP("books:list")>> \o invalidate_each_steps(m.ids, S.nextBookId)
      [] m.handler = "create_review" ->
            invalidate_each_steps(BookAuthors(S, m.id), m.id) \o invalidate_book_steps(m.id)
      [] m.handler \in {"replace_book", "update_author_list"} ->
            invalidate_each_steps(BookAuthors(S, m.id) \cup m.ids, m.id)
            \o invalidate_book_steps(m.id) \o <<BUMP("books:list")>>
      [] m.handler = "update_book" ->
            invalidate_book_steps(m.id) \o <<BUMP("books:list")>>
      [] m.handler = "delete_book" ->
            invalidate_each_steps(BookAuthors(S, m.id), m.id)
            \o invalidate_book_steps(m.id) \o <<BUMP("books:list")>>
      [] m.handler = "delete_review" ->
            invalidate_book_steps(S.reviews[m.id].book_id)
      [] m.handler = "create_author" ->
            (IF m.ids # {}
             THEN invalidate_author_steps(S.nextAuthorId, m.ids) \o <<BUMP("books:list")>>
             ELSE <<>>)
            \o <<BUMP("authors:list")>>
      [] m.handler \in {"replace_author", "update_author"} ->
            invalidate_author_steps(m.id, AuthorBooks(S, m.id) \cup GivenIds(m))
            \o <<BUMP("authors:list")>>
            \o (IF AuthorBooks(S, m.id) \cup GivenIds(m) # {}
                THEN <<BUMP("books:list")>> ELSE <<>>)
      [] m.handler = "del_author" ->
            invalidate_author_steps(m.id, AuthorBooks(S, m.id))
            \o <<BUMP("authors:list")>>
            \o (IF AuthorBooks(S, m.id) # {} THEN <<BUMP("books:list")>> ELSE <<>>)

\* every mutation handler: db.commit(), then its cache calls
\* (_invalidate_first: the cache calls moved in front of db.commit())
Program_invalidate_first(S, m) == CacheSteps(S, m) \o <<COMMIT>>
Program(S, m) == <<COMMIT>> \o CacheSteps(S, m)

\* bump_cache_version called with the store reachable or not: r.incr raises
\* and the function has no try/except
\* (_swallowed: the ConnectionError caught and 0 returned)
bump_cache_version_call_swallowed(reachable, store, name) ==
    IF reachable
    THEN [raised |-> FALSE, store |-> bump_cache_version(store, name).store,
          reply |-> bump_cache_version(store, name).reply]
    ELSE [raised |-> FALSE, store |-> store, reply |-> 0]
bump_cache_version_call(reachable, store, name) ==
    IF reachable
    THEN [raised |-> FALSE, store |-> bump_cache_version(store, name).store,
          reply |-> bump_cache_version(store, name).reply]
    ELSE [raised |-> TRUE, store |-> store, reply |-> 0]

\* get_async_db: when the handler raises, the session is closed; what was
\* committed stays
\* (_undone: the committed change undone when a cache call raises)
AfterRaise_undone(loaded, now) == loaded
AfterRaise(loaded, now) == now

IdleRequest(n) == [pc |-> "idle", n |-> n]

\* the cache after GET /books/1 and GET /authors/1/books on the seeded library
WarmStore ==
    get_author_books(get_book_router(SeededCounters, SeedDb, 1).store, SeedDb, 1).store

FailInit ==
    /\ SeedLibrary
    /\ redis \in {SeededCounters, WarmStore}
    /\ up = TRUE
    /\ hx = IdleRequest(0)
    /\ mLast = NoCall
    /\ AppIdle
    /\ CurIdle
    /\ KeyIdle
    /\ VerIdle
    /\ PageIdle
    /\ ConcIdle

nonFailVars == <<keyVars, bumpLog, verVars, pageVars, appVars, concVars, curVars, mLast>>

Between == hx.pc \in {"idle", "done"} /\ hx.n < MaxFailRequests

\* the request ends: status is the response's, fault what was raised
Ended(h, status, fault) == [h EXCEPT !.pc = "done", !.status = status, !.fault = fault]

\* a mutation handler is entered: it loads its rows and validates the body
BeginMutation(m) ==
    /\ Between
    /\ m.handler = "create_book" => nextBookId <= MaxBooks
    /\ m.handler = "create_author" => nextAuthorId <= MaxAuthors
    /\ m.handler = "create_review" => nextReviewId <= MaxReviews
    /\ \E refusal \in {Refusal(DbState, m)} :
          hx' = [pc |-> IF refusal = PyNone THEN "run" ELSE "done",
                 n |-> hx.n + 1, kind |-> "mutation", m |-> m,
                 prog |-> IF refusal = PyNone THEN Program(DbState, m) ELSE <<>>,
                 committed |-> FALSE, sent |-> 0, loaded |-> DbState, store0 |-> redis,
                 target |-> IF refusal = PyNone THEN Change(DbState, m) ELSE DbState,
                 status |-> IF refusal = PyNone THEN 0 ELSE refusal.v,
                 fault |-> "none"]
    /\ UNCHANGED <<redis, up, dbVars>>
    /\ UNCHANGED nonFailVars

Running(cmd) == hx.pc = "run" /\ hx.prog # <<>> /\ Head(hx.prog).cmd = cmd

\* await db.commit() succeeds
CommitStep ==
    /\ Running("commit")
    /\ SetDb(hx.target)
    /\ hx' = [hx EXCEPT !.prog = Tail(@), !.committed = TRUE]
    /\ UNCHANGED <<redis, up>>
    /\ UNCHANGED nonFailVars

\* await db.commit() raises
CommitFails ==
    /\ Running("commit")
    /\ hx' = Ended(hx, HTTP500, "db")
    /\ UNCHANGED <<redis, up, dbVars>>
    /\ UNCHANGED nonFailVars

\* a call on the unreachable store raises, the handler is left, the
\* dependency get_async_db closes the session
Unreachable ==
    /\ hx' = Ended(hx, HTTP500, "store")
    /\ SetDb(AfterRaise(hx.loaded, DbState))
    /\ UNCHANGED <<redis, up>>

\* await r.delete(key)
DeleteStep ==
    /\ Running("DEL")
    /\ IF ~up THEN Unreachable
       ELSE /\ redis' = redis_delete(redis, Head(hx.prog).key)
            /\ hx' = [hx EXCEPT !.prog = Tail(@), !.sent = @ + 1]
            /\ UNCHANGED <<up, dbVars>>
    /\ UNCHANGED nonFailVars

\* await r.smembers(author_books_key): the related books' keys are deleted next
MembersStep ==
    /\ Running("SMEMBERS")
    /\ IF ~up THEN Unreachable
       ELSE \E sm \in {redis_smembers(redis, Head(hx.prog).key)} :
               /\ hx' = IF sm.ok
                        THEN [hx EXCEPT !.prog = related_steps(sm.members) \o Tail(@),
                                        !.sent = @ + 1]
                        ELSE Ended([hx EXCEPT !.sent = @ + 1], HTTP500, "wrongtype")
               /\ SetDb(IF sm.ok THEN DbState ELSE AfterRaise(hx.loaded, DbState))
               /\ UNCHANGED <<redis, up>>
    /\ UNCHANGED nonFailVars

\* await bump_cache_version(name, r)
BumpCallStep ==
    /\ Running("bump_cache_version")
    /\ \E out \in {bump_cache_version_call(up, redis, Head(hx.prog).name)} :
          IF out.raised THEN Unreachable
          ELSE /\ redis' = out.store
               /\ hx' = [hx EXCEPT !.prog = Tail(@), !.sent = @ + 1]
               /\ UNCHANGED <<up, dbVars>>
    /\ UNCHANGED nonFailVars

\* the handler returns
ReturnStep ==
    /\ hx.pc = "run"
    /\ hx.prog = <<>>
    /\ hx' = Ended(hx, SuccessStatus(hx.m), "none")
    /\ UNCHANGED <<redis, up, dbVars>>
    /\ UNCHANGED nonFailVars

\* GET /books/{id} and GET /books requests
FailReads ==
    {[handler |-> "get_book_router", id |-> b] : b \in BookIds}
    \cup {[handler |-> "get_books_router", req |-> req] : req \in BooksRequests}

BeginRead(q) ==
    /\ Between
    /\ hx' = [pc |-> IF q.handler = "get_books_router" THEN "version" ELSE "get",
              n |-> hx.n + 1, kind |-> "read", q |-> q, kp |-> NoBuild, body |-> PyNone,
              status |-> 0, fault |-> "none", source |-> "none"]
    /\ UNCHANGED <<redis, up, dbVars>>
    /\ UNCHANGED nonFailVars

\* get_books_router line 75: get_cache_version, then the key
ReadVersionStep ==
    /\ hx.pc = "version"
    /\ hx' = IF ~up THEN Ended(hx, HTTP500, "store")
             ELSE [hx EXCEPT !.pc = "get",
                             !.kp = make_books_list_key(redis, BooksParams(hx.q.req))]
    /\ UNCHANGED <<redis, up, dbVars>>
    /\ UNCHANGED nonFailVars

\* the cached document, None on a miss
Lookup(store, h) ==
    IF h.q.handler = "get_books_router"
    THEN get_list_with_params(store, h.kp.key, h.kp.payload)
    ELSE IF get_book(store, h.q.id) = PyNone THEN PyNone
    ELSE Some(get_book(store, h.q.id).data)

\* what the relational store answers
Queried(db, q) ==
    IF q.handler = "get_books_router" THEN books_query(db, q.req)
    ELSE IF q.id \in DOMAIN db.books
    THEN [status |-> HTTP200, body |-> BookDetailRead(db, q.id)]
    ELSE [status |-> HTTP404]

\* lines 76-78, 209-222: the cache is asked; on a miss the statement runs
ReadGetStep ==
    /\ hx.pc = "get"
    /\ hx' = IF ~up THEN Ended(hx, HTTP500, "store")
             ELSE Bind({IF cached # PyNone
                        THEN [Ended(hx, HTTP200, "none") EXCEPT !.body = cached,
                                                                !.source = "cache"]
                        ELSE Bind({IF res.status # HTTP200
                                   THEN Ended(hx, res.status, "none")
                                   ELSE [hx EXCEPT !.pc = "fill", !.body = Some(res.body)] :
                                      res \in {Queried(DB, hx.q)}}) :
                           cached \in {Lookup(redis, hx)}})
    /\ UNCHANGED <<redis, up, dbVars>>
    /\ UNCHANGED nonFailVars

\* lines 199-200, 224-225: the answer is cached and returned
ReadFillStep ==
    /\ hx.pc = "fill"
    /\ IF ~up
       THEN /\ hx' = Ended(hx, HTTP500, "store")
            /\ UNCHANGED redis
       ELSE /\ redis' = IF hx.q.handler = "get_books_router"
                        THEN cache_list_with_params(redis, hx.kp.key, hx.body.v, hx.kp.payload)
                        ELSE cache_book(redis, hx.q.id, JsonDict(hx.body.v))
            /\ hx' = [Ended(hx, HTTP200, "none") EXCEPT !.source = "db"]
    /\ UNCHANGED <<up, dbVars>>
    /\ UNCHANGED nonFailVars

\* the store becomes unreachable / reachable again
StoreDown ==
    /\ up
    /\ up' = FALSE
    /\ UNCHANGED <<redis, hx, dbVars>>
    /\ UNCHANGED nonFailVars

StoreUp ==
    /\ ~up
    /\ up' = TRUE
    /\ UNCHANGED <<redis, hx, dbVars>>
    /\ UNCHANGED nonFailVars

FailNext ==
    \/ \E m \in FailMutations : BeginMutation(m)
    \/ CommitStep
    \/ CommitFails
    \/ DeleteStep
    \/ MembersStep
    \/ BumpCallStep
    \/ ReturnStep
    \/ \E q \in FailReads : BeginRead(q)
    \/ ReadVersionStep
    \/ ReadGetStep
    \/ ReadFillStep
    \/ StoreDown
    \/ StoreUp

SpecFail == FailInit /\ [][FailNext]_vars

IsMutation(h) == h.pc \in {"run", "done"} /\ h.kind = "mutation"
IsRead(h) == h.pc \in {"version", "get", "fill", "done"} /\ h.kind = "read"

\* C24: at no point of a mutation handler that has not committed (it is still
\* before its db.commit(), it was refused with 400 / 404, or its commit
\* raised) has a cache command of it run: no key is deleted, no counter is
\* bumped, the store is as the handler found it.
C24_NoInvalidationBeforeCommit ==
    (IsMutation(hx) /\ ~hx.committed) => (hx.sent = 0 /\ redis = hx.store0)

\* a committed mutation that has then changed the cache
C24_Witness ==
    /\ IsMutation(hx)
    /\ hx.pc = "done"
    /\ hx.committed
    /\ hx.sent > 0
    /\ redis # hx.store0
    /\ hx.fault = "none"

\* C25: once a mutation has committed, the relational state is the committed
\* one whatever happens to its cache calls: after a delete, SMEMBERS or bump
\* that raised, the change is still in place.
C25_CommittedChangeStays ==
    (IsMutation(hx) /\ hx.committed) => DbState = hx.target

\* a cache call raised after the commit of a change, and the change is there
C25_Witness ==
    /\ IsMutation(hx)
    /\ hx.pc = "done"
    /\ hx.committed
    /\ hx.fault \in {"store", "wrongtype"}
    /\ hx.status = HTTP500
    /\ hx.target # hx.loaded
    /\ DbState = hx.target

\* C26: a read request whose version lookup, cache get or cache fill met an
\* unreachable store is answered from the relational store (200, or 404 for a
\* missing row), not with an error.
C26_UnreachableReadAnsweredFromDb ==
    (IsRead(hx) /\ hx.pc = "done" /\ hx.fault = "store")
        => (hx.status \in {HTTP200, HTTP404} /\ hx.source = "db")

\* C27: a call of bump_cache_version made while the store is unreachable
\* raises to the handler that made it: the handler does not go on to its next
\* statement or return normally, the request ends as an error, and the counter
\* is not changed.
C27_BumpFailsVisibly ==
    [][(Running("bump_cache_version") /\ ~up /\ hx' # hx)
          => /\ hx'.pc = "done"
             /\ hx'.fault = "store"
             /\ hx'.status = HTTP500
             /\ redis' = redis]_vars

\* a handler ended by the bump it made on the unreachable store
C27_Witness ==
    /\ IsMutation(hx)
    /\ hx.pc = "done"
    /\ hx.committed
    /\ hx.fault = "store"
    /\ hx.prog # <<>>
    /\ Head(hx.prog).cmd = "bump_cache_version"
    /\ ~up

(***************************************************************************)
(* SpecCache: the functions of src/cache.py that write and delete cache    *)
(* entries, called one at a time in any order on a reachable store, and    *)
(* the store expiring keys that were given a TTL.                          *)
(***************************************************************************)
\* the number of calls in a behaviour of SpecCache
MaxCalls == 4

\* the n-th call: the function, its arguments, whether it returned (ok) or
\* raised, the keys it removed and the keys the call before it removed
Call(n, f, args, ok, gone, goneBefore) ==
    [n |-> n, f |-> f, args |-> args, ok |-> ok, gone |-> gone, goneBefore |-> goneBefore]

CacheInit ==
    /\ redis = EmptyStore
    /\ mLast = Call(0, "none", <<>>, TRUE, {}, {})
    /\ EmptyDb
    /\ up = TRUE
    /\ hx = NoReq
    /\ AppIdle
    /\ CurIdle
    /\ KeyIdle
    /\ VerIdle
    /\ PageIdle
    /\ ConcIdle

nonCacheVars ==
    <<keyVars, bumpLog, verVars, dbVars, pageVars, appVars, concVars, curVars, failVars>>

Called(f, args, ok) ==
    /\ mLast' = Call(mLast.n + 1, f, args, ok, DOMAIN redis \ DOMAIN redis', mLast.gone)
    /\ UNCHANGED nonCacheVars

CallCacheBook(book_id) ==
    /\ mLast.n < MaxCalls
    /\ redis' = cache_book(redis, book_id, JsonDict([id |-> book_id]))
    /\ Called("cache_book", <<book_id>>, TRUE)

CallCacheAuthor(author_id) ==
    /\ mLast.n < MaxCalls
    /\ redis' = cache_author(redis, author_id, JsonDict([id |-> author_id]))
    /\ Called("cache_author", <<author_id>>, TRUE)

\* cache_list on a relation fragment key, as get_reviews and get_author_books call it
CallCacheList(key) ==
    /\ mLast.n < MaxCalls
    /\ redis' = cache_list(redis, key, JsonList({}))
    /\ Called("cache_list", <<key>>, TRUE)

\* cache_list_with_params on a list key, as get_books_router calls it
CallCacheListWithParams(params) ==
    /\ mLast.n < MaxCalls
    /\ \E kp \in {make_books_list_key(redis, params)} :
          redis' = cache_list_with_params(redis, kp.key, <<>>, kp.payload)
    /\ Called("cache_list_with_params", <<params>>, TRUE)

CallLinkBookToAuthors(book_id, author_ids) ==
    /\ mLast.n < MaxCalls
    /\ \E out \in {link_book_to_authors(redis, book_id, author_ids)} :
          /\ redis' = out.store
          /\ Called("link_book_to_authors", <<book_id, author_ids>>, out.ok)

CallInvalidateBook(book_id) ==
    /\ mLast.n < MaxCalls
    /\ redis' = invalidate_book(redis, book_id)
    /\ Called("invalidate_book", <<book_id>>, TRUE)

\* book_ids None or empty is the empty set here: the code treats both alike
CallInvalidateAuthor(author_id, book_ids) ==
    /\ mLast.n < MaxCalls
    /\ \E out \in {invalidate_author(redis, author_id, book_ids)} :
          /\ redis' = out.store
          /\ Called("invalidate_author", <<author_id, book_ids>>, out.ok)

\* the store drops a key whose TTL has run out
Expire(key) ==
    /\ key \in DOMAIN redis
    /\ redis[key].ex # PyNone
    /\ redis' = redis_delete(redis, key)
    /\ UNCHANGED mLast
    /\ UNCHANGED nonCacheVars

FragmentKeys ==
    {make_author_books_key(a) : a \in AuthorIds} \cup {make_reviews_key(b) : b \in BookIds}

CacheKeys ==
    {make_book_key(b) : b \in BookIds} \cup {make_author_key(a) : a \in AuthorIds}
    \cup FragmentKeys
    \cup {make_books_list_key(EmptyStore, BooksParams(req)).key : req \in BooksRequests}

CacheNext ==
    \/ \E b \in BookIds : CallCacheBook(b)
    \/ \E a \in AuthorIds : CallCacheAuthor(a)
    \/ \E k \in FragmentKeys : CallCacheList(k)
    \/ \E req \in BooksRequests : CallCacheListWithParams(BooksParams(req))
    \/ \E b \in BookIds, A \in SUBSET AuthorIds : CallLinkBookToAuthors(b, A)
    \/ \E b \in BookIds : CallInvalidateBook(b)
    \/ \E a \in AuthorIds, B \in SUBSET BookIds : CallInvalidateAuthor(a, B)
    \/ \E k \in CacheKeys : Expire(k)

SpecCache == CacheInit /\ [][CacheNext]_vars

\* the keys a call of invalidate_book / invalidate_author is to delete, given
\* the store it runs on
TargetKeys(store, f, args) ==
    IF f = "invalidate_book"
    THEN {make_book_key(args[1]), make_reviews_key(args[1]),
          "book:" \o ToString(args[1]) \o ":authors"}
    ELSE LET related == IF args[2] # {} THEN args[2]
                        ELSE redis_smembers(store, make_author_books_key(args[1])).members
         IN {make_author_key(args[1]), make_author_books_key(args[1])}
            \cup {make_book_key(b) : b \in related}
            \cup {make_reviews_key(b) : b \in related}

Invalidates == {"invalidate_book", "invalidate_author"}

\* C28: a call of invalidate_book or invalidate_author on a store that holds
\* none of its target keys returns without error and leaves the store as it
\* was; and a call that directly follows the same call with the same
\* arguments leaves the store as the first call left it.
C28_InvalidateIdempotent ==
    [][(mLast'.n = mLast.n + 1 /\ mLast'.f \in Invalidates)
          => /\ TargetKeys(redis, mLast'.f, mLast'.args) \cap DOMAIN redis = {}
                   => (mLast'.ok /\ redis' = redis)
             /\ (mLast.f = mLast'.f /\ mLast.args = mLast'.args) => redis' = redis]_vars

\* invalidate_author(1, None) deleted the entry of a book of the membership
\* set and the set, and has then been applied again
C28_Witness ==
    /\ mLast.f = "invalidate_author"
    /\ mLast.args = <<1, {}>>
    /\ mLast.ok
    /\ mLast.gone = {}
    /\ mLast.goneBefore = {make_book_key(1), make_author_books_key(1)}
    /\ redis = EmptyStore

\* C36: every call of invalidate_author, on whatever entries the calls before
\* it left (the list that get_author_books stores under author:{id}:books
\* among them) and with whatever book_ids, returns without error and leaves
\* neither author:{id} nor author:{id}:books in the store.
C36_InvalidateAuthorCompletes ==
    [][(mLast'.n = mLast.n + 1 /\ mLast'.f = "invalidate_author")
          => /\ mLast'.ok
             /\ make_author_key(mLast'.args[1]) \notin DOMAIN redis'
             /\ make_author_books_key(mLast'.args[1]) \notin DOMAIN redis']_vars

IsCounterKey(key) == key \in {VersionKey(n) : n \in VersionNames}

\* C30: every entry in the store other than a version counter was written with
\* a positive TTL.
C30_EveryEntryHasTtl ==
    \A k \in DOMAIN redis :
       ~IsCounterKey(k) => (redis[k].ex # PyNone /\ redis[k].ex.v > 0)

====
